---- MODULE Spec2Model ----
(* Model of the batch orchestration engine of src/app2.py:                  *)
(* SecurityUtils (validation, sanitization, disk space), the collectors     *)
(* VideoInfoThread and ProfileFetchThread, DownloadThread (the sequential,  *)
(* cancellable download driver with dedup and pacing) and the worker slots  *)
(* of the main window.                                                      *)
(* A Python str is a sequence of one-character strings.                     *)
EXTENDS Integers, Sequences, FiniteSets, TLC

VARIABLES
    \* ---- SecurityUtils.sanitize_filename applied to an input, then to its own output
    sanPc,            \* "off" | "init" | "once" | "twice"
    sanIn,            \* the argument of the first call
    sanOut,           \* the result of sanitize_filename(sanIn)
    sanOut2,          \* the result of sanitize_filename(sanOut)
    \* ---- DownloadThread fields (app2.py:626-632)
    videos,           \* self.videos: sequence of records [id, title, url]
    filename_format,  \* self.filename_format
    rate_limit_delay, \* self.rate_limit_delay
    is_running,       \* self._is_running
    \* ---- DownloadThread.run locals and position
    pc,               \* "off" | "idle" | "loop" | "item" | "transfer" | "sleep" | "final" | "done"
    idx,              \* the loop variable of enumerate(self.videos, 1)
    success_count,
    failed_count,
    inflight,         \* positions whose ydl.download call has not returned yet
    \* ---- signals emitted (the observable output streams)
    finished,         \* finished.emit(ok, message, video_id), in order
    status_update,    \* status_update.emit(text), in order
    progress,         \* the last progress.emit(percent, video_id), or NoProgress
    \* ---- environment: the filesystem under save_path and the extractor
    dir,              \* names of the entries of save_path
    symlinks,         \* the entries of save_path that are symlinks leaving it
    listable,         \* whether os.listdir(save_path) succeeds
    downloads,        \* the ydl.download calls made: [idx, url, parent, name]
    \* ---- history of the run
    scans,            \* per item processed: what the dedup scan faced
    raised,           \* positions whose transfer raised
    cancelledIdx,     \* position whose transfer the cancellation aborted, 0 if none
    stopAt,           \* where the run was when stop() was called
    sleeps,           \* positions after whose outcome the worker slept
    \* ---- SecurityUtils.check_disk_space(path, required_mb)
    dkPc,             \* "off" | "init" | "done"
    dkUsage,          \* what shutil.disk_usage(path) does: [ok, free] (free in bytes)
    dkRequired,       \* required_mb
    dkResult,         \* the pair returned
    \* ---- SecurityUtils.is_valid_url(url)
    urlPc,            \* "off" | "init" | "done"
    urlParts,         \* the pieces the argument is written from
    urlIn,            \* the argument
    urlResult,        \* the value returned
    \* ---- VideoInfoThread
    viUrls,           \* self.urls
    viRunning,        \* self._is_running
    viPc,             \* "off" | "idle" | "loop" | "url" | "extract" | "final" | "done"
    viIdx,            \* the loop variable of enumerate(self.urls, 1)
    viInfo,           \* what ydl.extract_info returned for the URL in hand
    viVideos,         \* the local list videos
    viStatus,         \* status_update.emit(text), in order
    viProgress,       \* progress.emit(percent), in order
    viFinished,       \* finished.emit(ok, message, list), in order
    viLog,            \* per URL processed: what became of it
    \* ---- ProfileFetchThread
    pfUrl,            \* self.url
    pfMax,            \* self.max_videos
    pfEnv,            \* the thread class, whether instaloader imports, the profile's size
    pfRunning,        \* self._is_running
    pfPc,             \* position in run / scrape_instagram_with_instaloader
    pfPlatform,       \* the local platform
    pfCount,          \* count (Instagram) or idx (other platforms)
    pfEntries,        \* len(entries) of the flattened listing
    pfVideos,         \* the local list videos
    pfStatus,         \* status_update.emit(text), in order
    pfProgress,       \* progress.emit(percent), in order
    pfFinished,       \* finished.emit(ok, message, list), in order
    pfError,          \* the exception the Instagram enumeration raised, if it did
    \* ---- InstagramBatchDownloader: its workers, by kind
    uiSlot,           \* the worker each *_thread attribute refers to (0: None)
    uiRunning,        \* the workers of each kind whose run has not returned
    uiStopSent,       \* the workers whose stop() was called
    uiBtn,            \* whether each start button is enabled
    uiWidgets,        \* len(self.video_widgets)
    uiSelected,       \* number of video widgets whose checkbox is checked
    uiLeft,           \* per download worker: the items it has not reported yet
    uiNext            \* workers created so far

sanVars == << sanPc, sanIn, sanOut, sanOut2 >>

dlVars == << videos, filename_format, rate_limit_delay,
             is_running, pc, idx, success_count, failed_count, inflight,
             finished, status_update, progress, dir, symlinks, listable, downloads,
             scans, raised, cancelledIdx, stopAt, sleeps >>

dkVars == << dkPc, dkUsage, dkRequired, dkResult >>

urlVars == << urlPc, urlParts, urlIn, urlResult >>

viVars == << viUrls, viRunning, viPc, viIdx, viInfo, viVideos, viStatus, viProgress,
             viFinished, viLog >>

pfVars == << pfUrl, pfMax, pfEnv, pfRunning, pfPc, pfPlatform, pfCount, pfEntries,
             pfVideos, pfStatus, pfProgress, pfFinished, pfError >>

uiVars == << uiSlot, uiRunning, uiStopSent, uiBtn, uiWidgets, uiSelected, uiLeft, uiNext >>

vars == << sanVars, dlVars, dkVars, urlVars, viVars, pfVars, uiVars >>

\* the parts a specification does not exercise stay as they are here; part names
\* the one it does exercise among these
OthersIdle(part) ==
    /\ part = "disk" \/
          /\ dkPc = "off" /\ dkUsage = [ ok |-> FALSE, free |-> 0 ] /\ dkRequired = 0
          /\ dkResult = << >>
    /\ part = "url" \/
          /\ urlPc = "off" /\ urlParts = << >> /\ urlIn = << >> /\ urlResult = FALSE
    /\ part = "info" \/
          /\ viUrls = << >> /\ viRunning = TRUE /\ viPc = "off" /\ viIdx = 0
          /\ viInfo = << >> /\ viVideos = << >> /\ viStatus = << >> /\ viProgress = << >>
          /\ viFinished = << >> /\ viLog = << >>
    /\ part = "profile" \/
          /\ pfUrl = << >> /\ pfMax = 0 /\ pfEnv = << >> /\ pfRunning = TRUE
          /\ pfPc = "off" /\ pfPlatform = "" /\ pfCount = 0 /\ pfEntries = 0
          /\ pfVideos = << >> /\ pfStatus = << >> /\ pfProgress = << >>
          /\ pfFinished = << >> /\ pfError = [ cause |-> "none", text |-> << >> ]
    /\ part = "window" \/
          /\ uiSlot = << >> /\ uiRunning = << >> /\ uiStopSent = {} /\ uiBtn = << >>
          /\ uiWidgets = 0 /\ uiSelected = 0 /\ uiLeft = << >> /\ uiNext = 0

-----------------------------------------------------------------------------
(* Strings                                                                   *)

\* Python's None, kept apart from every str (no str holds a 4-letter element).
NoneValue == << "None" >>

\* `not x` for x a str or None.
Falsy(x) == x = NoneValue \/ x = << >>

Letters == { "a","b","c","d","e","f","g","h","i","j","k","l","m",
             "n","o","p","q","r","s","t","u","v","w","x","y","z",
             "A","B","C","D","E","F","G","H","I","J","K","L","M",
             "N","O","P","Q","R","S","T","U","V","W","X","Y","Z" }

Digits == { "0","1","2","3","4","5","6","7","8","9" }

\* valid_chars = f"-_.() {string.ascii_letters}{string.digits}"
ValidChars == { "-", "_", ".", "(", ")", " " } \cup Letters \cup Digits

\* the truncation length of sanitize_filename
FilenameLimit == 100

\* s[:n]
Prefix(s, n) == IF Len(s) > n THEN SubSeq(s, 1, n) ELSE s

\* sub in s  (Python's substring test)
Contains(s, sub) ==
    \E i \in 0 .. (Len(s) - Len(sub)) : SubSeq(s, i + 1, i + Len(sub)) = sub

\* s.replace('..', ''): the occurrences are found left to right and do not
\* overlap, so within a run of dots the pairs are taken from its left end and the
\* last dot of an odd run stays.
DotRunBefore(s, i) == Cardinality({ j \in 1 .. (i - 1) : \A k \in j .. (i - 1) : s[k] = "." })

KeptByReplace(s, i) ==
    \/ s[i] # "."
    \/ /\ DotRunBefore(s, i) % 2 = 0
       /\ (i = Len(s) \/ s[i + 1] # ".")

RemoveDotDot(s) ==
    LET tagged == [ i \in 1 .. Len(s) |-> << s[i], KeptByReplace(s, i) >> ]
        kept   == SelectSeq(tagged, LAMBDA p : p[2])
    IN  [ i \in 1 .. Len(kept) |-> kept[i][1] ]

\* s.replace(c, '') for a single character c
RemoveChar(s, c) == SelectSeq(s, LAMBDA x : x # c)

\* the same join keeping every character, valid or not
MapInvalidKept(s) == s

\* ''.join(c if c in valid_chars else '_' for c in filename)
MapInvalid(s) == [ i \in 1 .. Len(s) |-> IF s[i] \in ValidChars THEN s[i] ELSE "_" ]

\* s.strip('. ')
StripChars == { ".", " " }

Strip(s) ==
    LET keep == { i \in 1 .. Len(s) : s[i] \notin StripChars }
    IN  IF keep = {} THEN << >>
        ELSE LET lo == CHOOSE i \in keep : \A j \in 1 .. (i - 1) : s[j] \in StripChars
                 hi == CHOOSE i \in keep : \A j \in (i + 1) .. Len(s) : s[j] \in StripChars
             IN  SubSeq(s, lo, hi)

\* os.path.basename(s): what follows the last '/'
Basename(s) ==
    LET seps == { i \in 1 .. Len(s) : s[i] = "/" }
    IN  IF seps = {} THEN s
        ELSE LET last == CHOOSE i \in seps : \A j \in (i + 1) .. Len(s) : s[j] # "/"
             IN  SubSeq(s, last + 1, Len(s))

VideoName == << "v", "i", "d", "e", "o" >>

\* mutant: the cut is one character late
TruncateLate(s) == IF Len(s) > FilenameLimit THEN SubSeq(s, 1, FilenameLimit + 1) ELSE s

Truncate(s) == IF Len(s) > FilenameLimit THEN SubSeq(s, 1, FilenameLimit) ELSE s

OrVideo(s) == IF s = << >> THEN VideoName ELSE s

\* SecurityUtils.sanitize_filename
sanitize_filename(filename) ==
    IF Falsy(filename) THEN VideoName
    ELSE LET replaced  == RemoveChar(RemoveChar(RemoveDotDot(filename), "/"), "\\")
             sanitized == Basename(Strip(MapInvalid(replaced)))
         IN  OrVideo(Truncate(sanitized))

-----------------------------------------------------------------------------
(* Inputs of sanitize_filename: None, every string of up to MaxCore          *)
(* characters over SanChars, and every string of up to MaxPadCore such       *)
(* characters before or after a run of letters long enough to reach the      *)
(* truncation length.                                                        *)

MaxCore == 5

MaxPadCore == 2

\* one character of each class the function tells apart
SanChars == { "a", ".", "/", "\\", " ", "*" }

RECURSIVE StringsUpTo(_, _)
StringsUpTo(chars, n) ==
    IF n = 0 THEN { << >> }
    ELSE LET shorter == StringsUpTo(chars, n - 1)
         IN  shorter \cup { << c >> \o s : c \in chars, s \in { t \in shorter : Len(t) = n - 1 } }

Pad(k) == [ i \in 1 .. k |-> "a" ]

PadLens == { FilenameLimit - 2, FilenameLimit - 1, FilenameLimit }

SanInputs ==
    LET cores == StringsUpTo(SanChars, MaxPadCore)
    IN  { NoneValue } \cup StringsUpTo(SanChars, MaxCore)
        \cup { Pad(k) \o c : k \in PadLens, c \in cores }
        \cup { c \o Pad(k) : k \in PadLens, c \in cores }

-----------------------------------------------------------------------------
(* The same function applied to its own output (SpecSan)                     *)

SanIdle ==
    /\ sanPc = "off" /\ sanIn = NoneValue /\ sanOut = << >> /\ sanOut2 = << >>

DlIdle ==
    /\ videos = << >> /\ filename_format = 0 /\ rate_limit_delay = 0
    /\ is_running = TRUE /\ pc = "off" /\ idx = 0
    /\ success_count = 0 /\ failed_count = 0 /\ inflight = {}
    /\ finished = << >> /\ status_update = << >>
    /\ progress = [percent |-> -1, video_id |-> << >>]
    /\ dir = {} /\ symlinks = {} /\ listable = TRUE /\ downloads = << >>
    /\ scans = << >> /\ raised = {} /\ cancelledIdx = 0
    /\ stopAt = [pc |-> "none", idx |-> 0, nout |-> 0] /\ sleeps = {}

SanInit ==
    /\ sanPc = "init"
    /\ sanIn \in SanInputs
    /\ sanOut = << >>
    /\ sanOut2 = << >>
    /\ DlIdle
    /\ OthersIdle("")

\* sanitized = sanitize_filename(x)
SanFirst ==
    /\ sanPc = "init"
    /\ sanOut' = sanitize_filename(sanIn)
    /\ sanPc' = "once"
    /\ UNCHANGED << sanIn, sanOut2 >>
    /\ UNCHANGED << dlVars, dkVars, urlVars, viVars, pfVars, uiVars >>

\* sanitize_filename(sanitized), as DownloadThread.run does with a derived name
SanSecond ==
    /\ sanPc = "once"
    /\ sanOut2' = sanitize_filename(sanOut)
    /\ sanPc' = "twice"
    /\ UNCHANGED << sanIn, sanOut >>
    /\ UNCHANGED << dlVars, dkVars, urlVars, viVars, pfVars, uiVars >>

SanNext == SanFirst \/ SanSecond

SpecSan == SanInit /\ [][SanNext]_vars

-----------------------------------------------------------------------------
(* DownloadThread: filename derivation and the filesystem it meets           *)

DigitSeq == << "0", "1", "2", "3", "4", "5", "6", "7", "8", "9" >>

RECURSIVE Decimal(_)
Decimal(n) == IF n < 10 THEN << DigitSeq[n + 1] >>
              ELSE Decimal(n \div 10) \o << DigitSeq[(n % 10) + 1] >>

\* f'{idx:02d}'
Fmt02(n) == IF n < 10 THEN << "0" >> \o Decimal(n) ELSE Decimal(n)

\* mutant: the position is counted from 0
final_filename_from_zero(i, video, format) ==
    LET clean_title == sanitize_filename(video.title)
        derived ==
            IF format = 0 THEN Fmt02(i - 1) \o << "_" >> \o clean_title
            ELSE IF format = 1 THEN Prefix(sanitize_filename(video.id), 30)
            ELSE IF format = 2
                 THEN Fmt02(i - 1) \o << "_" >> \o clean_title \o << "_" >>
                      \o Prefix(sanitize_filename(video.id), 10)
            ELSE clean_title
    IN  sanitize_filename(derived)

\* lines 677-690 of DownloadThread.run
final_filename(i, video, format) ==
    LET clean_title == sanitize_filename(video.title)
        derived ==
            IF format = 0 THEN Fmt02(i) \o << "_" >> \o clean_title
            ELSE IF format = 1 THEN Prefix(sanitize_filename(video.id), 30)
            ELSE IF format = 2
                 THEN Fmt02(i) \o << "_" >> \o clean_title \o << "_" >>
                      \o Prefix(sanitize_filename(video.id), 10)
            ELSE clean_title
    IN  sanitize_filename(derived)

\* the '.%(ext)s' the output template ends with
ExtPlaceholder == << ".", "%", "(", "e", "x", "t", ")", "s" >>

\* the extension the extractor puts in its place
Ext == << ".", "m", "p", "4" >>

\* os.path.join(self.save_path, f'{final_filename}.%(ext)s')
output_template(name) == [ parent |-> "save_path", name |-> name \o ExtPlaceholder ]

\* SecurityUtils.sanitize_path: os.path.realpath(os.path.abspath(filepath)).
\* An entry of save_path that is a symlink resolves to its target, in another
\* directory; any other name resolves to itself under the canonical save_path.
sanitize_path(filepath) ==
    IF filepath.parent = "save_path" /\ filepath.name \in symlinks
    THEN [ parent |-> "elsewhere", name |-> filepath.name ]
    ELSE filepath

\* mutant: the id has to be the whole name up to the extension
is_already_downloaded_exact(video_id) ==
    listable /\ \E filename \in dir : filename = video_id \o Ext

\* DownloadThread.is_already_downloaded; a failing os.listdir is swallowed
is_already_downloaded(video_id) ==
    listable /\ \E filename \in dir : Contains(filename, video_id)

\* the entries of save_path that hold the id, listed or not
EntriesHolding(video_id) == { filename \in dir : Contains(filename, video_id) }

\* the entries of save_path that a completed transfer of the record, at whatever
\* position of a batch of this length, has left under the format in use
LeftByTransfer(video) ==
    { filename \in dir :
        \E p \in 1 .. Len(videos) : filename = final_filename(p, video, filename_format) \o Ext }

-----------------------------------------------------------------------------
(* Inputs of a download batch                                                *)

MaxVideos == 2

Id_ab12 == << "a", "b", "1", "2" >>
Id_12   == << "1", "2" >>
Id_q7   == << "q", "7" >>

Title_Hi    == << "H", "i", "!" >>
Title_Slash == << "c", "/", "d", "." >>

\* the records a caller may select (id and title non-empty)
RecordPool ==
    { [ id |-> Id_ab12, title |-> Title_Hi,    url |-> "u1" ],
      [ id |-> Id_12,   title |-> Title_Hi,    url |-> "u2" ],
      [ id |-> Id_q7,   title |-> Title_Slash, url |-> "u3" ] }

\* 'Hello World!!'
Title_Hello == << "H", "e", "l", "l", "o", " ", "W", "o", "r", "l", "d", "!", "!" >>

\* a selection of three records, the third titled 'Hello World!!'
LongBatch ==
    << [ id |-> Id_ab12, title |-> Title_Hi,    url |-> "u1" ],
       [ id |-> Id_q7,   title |-> Title_Slash, url |-> "u3" ],
       [ id |-> Id_12,   title |-> Title_Hello, url |-> "u4" ] >>

\* a selection of one record whose title '%(id)s' and id 'a%b' hold the
\* character that opens a field of an output template
PercentBatch ==
    << [ id |-> << "a", "%", "b" >>, title |-> << "%", "(", "i", "d", ")", "s" >>, url |-> "u5" ] >>

RECURSIVE Batches(_)
Batches(n) ==
    IF n = 0 THEN { << >> }
    ELSE LET shorter == Batches(n - 1)
         IN  shorter \cup { Append(b, r) : b \in { t \in shorter : Len(t) = n - 1 }, r \in RecordPool }

\* '07_MyClip_ab12.mp4', left by an earlier run
OldFile == << "0", "7", "_", "M", "y", "C", "l", "i", "p", "_", "a", "b", "1", "2" >> \o Ext

NotStopped == [ pc |-> "none", idx |-> 0, nout |-> 0 ]

NoProgress == [ percent |-> -1, video_id |-> << >> ]

\* what save_path holds when the batch starts: nothing, a file of an earlier run,
\* or a symlink that bears the name of the first item's output template
DirChoices(batch, format) ==
    { [ dir |-> {}, symlinks |-> {} ],
      [ dir |-> { OldFile }, symlinks |-> {} ],
      [ dir |-> { final_filename(1, batch[1], format) \o ExtPlaceholder },
        symlinks |-> { final_filename(1, batch[1], format) \o ExtPlaceholder } ] }

DlInit ==
    /\ SanIdle
    /\ OthersIdle("")
    /\ videos \in { b \in Batches(MaxVideos) : Len(b) >= 1 } \cup { LongBatch, PercentBatch }
    /\ filename_format \in 0 .. 3
    /\ rate_limit_delay \in { 0, 2 }
    /\ \E c \in DirChoices(videos, filename_format) :
          dir = c.dir /\ symlinks = c.symlinks
    /\ listable \in BOOLEAN
    /\ is_running = TRUE
    /\ pc = "idle"
    /\ idx = 0
    /\ success_count = 0
    /\ failed_count = 0
    /\ inflight = {}
    /\ finished = << >>
    /\ status_update = << >>
    /\ progress = NoProgress
    /\ downloads = << >>
    /\ scans = << >>
    /\ raised = {}
    /\ cancelledIdx = 0
    /\ stopAt = NotStopped
    /\ sleeps = {}

-----------------------------------------------------------------------------
(* DownloadThread                                                            *)

total == Len(videos)

\* finished.emit(ok, f"<mark> <what>: {title[:50]}", video_id)
Outcome(ok, what, video) ==
    [ ok |-> ok, what |-> what, title |-> Prefix(video.title, 50), video_id |-> video.id ]

envVars == << videos, filename_format, rate_limit_delay, symlinks, listable >>

\* DownloadThread.stop, called from the window's thread at any moment
stop ==
    /\ pc \notin { "off", "done" }
    /\ is_running
    /\ is_running' = FALSE
    /\ stopAt' = [ pc |-> pc, idx |-> idx, nout |-> Len(finished) ]
    /\ UNCHANGED << pc, idx, success_count, failed_count, inflight, finished,
                    status_update, progress, dir, downloads, scans, raised,
                    cancelledIdx, sleeps >>
    /\ UNCHANGED envVars
    /\ UNCHANGED << sanVars, dkVars, urlVars, viVars, pfVars, uiVars >>

\* lines 658-661: the worker starts
RunStart ==
    /\ pc = "idle"
    /\ pc' = "loop"
    /\ idx' = 1
    /\ success_count' = 0
    /\ failed_count' = 0
    /\ UNCHANGED << is_running, inflight, finished, status_update, progress, dir,
                    downloads, scans, raised, cancelledIdx, stopAt, sleeps >>
    /\ UNCHANGED envVars
    /\ UNCHANGED << sanVars, dkVars, urlVars, viVars, pfVars, uiVars >>

\* mutant: the loop does not look at the flag
LoopExitIgnoringFlag == idx > total

\* lines 663-665: the loop is left when the list is exhausted or the flag is down
LoopExit == idx > total \/ ~is_running

LoopCheck ==
    /\ pc = "loop"
    /\ pc' = IF LoopExit THEN "final" ELSE "item"
    /\ UNCHANGED << is_running, idx, success_count, failed_count, inflight, finished,
                    status_update, progress, dir, downloads, scans, raised,
                    cancelledIdx, stopAt, sleeps >>
    /\ UNCHANGED envVars
    /\ UNCHANGED << sanVars, dkVars, urlVars, viVars, pfVars, uiVars >>

\* mutant: a duplicate is passed over without an outcome
SkipDuplicateSilently(video) ==
    /\ success_count' = success_count + 1
    /\ finished' = finished
    /\ idx' = idx + 1
    /\ pc' = "loop"

\* lines 673-675: the 'already exists' outcome, then the next turn of the loop
SkipDuplicate(video) ==
    /\ success_count' = success_count + 1
    /\ finished' = Append(finished, Outcome(TRUE, "exists", video))
    /\ idx' = idx + 1
    /\ pc' = "loop"

\* lines 667-706: the dedup scan, then either the 'already exists' outcome or
\* the filename, the status line, the template and the call of ydl.download
ItemBegin ==
    /\ pc = "item"
    /\ LET video == videos[idx]
           path  == sanitize_path(output_template(final_filename(idx, video, filename_format)))
       IN  /\ scans' = Append(scans, [ idx |-> idx, listed |-> listable,
                                        holding |-> EntriesHolding(video.id) # {},
                                        derived |-> LeftByTransfer(video) # {} ])
           /\ IF is_already_downloaded(video.id)
              THEN /\ SkipDuplicate(video)
                   /\ UNCHANGED << status_update, downloads, inflight >>
              ELSE /\ status_update' = Append(status_update,
                                              [ what |-> "downloading", a |-> idx, b |-> total ])
                   /\ downloads' = Append(downloads,
                                          [ idx |-> idx, url |-> video.url,
                                            parent |-> path.parent, name |-> path.name ])
                   /\ inflight' = inflight \cup { idx }
                   /\ pc' = "transfer"
                   /\ UNCHANGED << success_count, finished, idx >>
    /\ UNCHANGED << is_running, failed_count, progress, dir, raised, cancelledIdx,
                    stopAt, sleeps >>
    /\ UNCHANGED envVars
    /\ UNCHANGED << sanVars, dkVars, urlVars, viVars, pfVars, uiVars >>

\* mutant: a failing item is not counted
ExceptHandlerUncounted ==
    /\ failed_count' = failed_count
    /\ finished' = Append(finished, Outcome(FALSE, "failed", videos[idx]))
    /\ inflight' = inflight \ { idx }
    /\ idx' = idx + 1
    /\ pc' = "loop"

\* mutant: a failing item ends the batch
ExceptHandlerAborts ==
    /\ failed_count' = failed_count + 1
    /\ finished' = Append(finished, Outcome(FALSE, "failed", videos[idx]))
    /\ inflight' = inflight \ { idx }
    /\ idx' = idx + 1
    /\ pc' = "final"

\* lines 714-717: the per-item handler, then the next turn of the loop
ExceptHandler ==
    /\ failed_count' = failed_count + 1
    /\ finished' = Append(finished, Outcome(FALSE, "failed", videos[idx]))
    /\ inflight' = inflight \ { idx }
    /\ idx' = idx + 1
    /\ pc' = "loop"

\* the payloads the extractor hands to a progress hook
ByteCounts == { [ tag |-> "absent", n |-> 0 ], [ tag |-> "None", n |-> 0 ],
                [ tag |-> "int", n |-> 0 ], [ tag |-> "int", n |-> 1 ] }

Payloads == [ status : { "downloading", "finished", "error" },
              downloaded_bytes : ByteCounts, total_bytes : ByteCounts ]

\* line 651
HasBoth(d) == d.downloaded_bytes.tag # "absent" /\ d.total_bytes.tag # "absent"

\* line 652 raises TypeError on a None and ZeroDivisionError on a total of 0
DivisionRaises(d) ==
    \/ d.downloaded_bytes.tag = "None"
    \/ d.total_bytes.tag = "None"
    \/ d.total_bytes.n = 0

\* int((downloaded / total) * 100)
Percent(d) == (d.downloaded_bytes.n * 100) \div d.total_bytes.n

\* mutant: the callback does not look at the flag
HookCancelsNever == FALSE

\* line 647
HookCancels == ~is_running

\* DownloadThread.progress_hook, called by the extractor during a transfer;
\* what it raises leaves ydl.download and reaches the per-item handler
ProgressHook ==
    /\ pc = "transfer"
    /\ \E d \in Payloads :
          IF HookCancels
          THEN /\ cancelledIdx' = idx
               /\ ExceptHandler
               /\ UNCHANGED << progress, raised >>
          ELSE IF d.status = "downloading" /\ HasBoth(d) /\ DivisionRaises(d)
          THEN /\ raised' = raised \cup { idx }
               /\ ExceptHandler
               /\ UNCHANGED << progress, cancelledIdx >>
          ELSE /\ progress' =
                     IF d.status = "downloading" /\ HasBoth(d)
                     THEN [ percent |-> Percent(d), video_id |-> videos[idx].id ]
                     ELSE IF d.status = "finished"
                     THEN [ percent |-> 100, video_id |-> videos[idx].id ]
                     ELSE progress
               /\ UNCHANGED << pc, idx, failed_count, finished, inflight, raised,
                               cancelledIdx >>
    /\ UNCHANGED << is_running, success_count, status_update, dir, downloads, scans,
                    stopAt, sleeps >>
    /\ UNCHANGED envVars
    /\ UNCHANGED << sanVars, dkVars, urlVars, viVars, pfVars, uiVars >>

\* ydl.download raises (DownloadError and the like): lines 714-717
TransferFail ==
    /\ pc = "transfer"
    /\ raised' = raised \cup { idx }
    /\ ExceptHandler
    /\ UNCHANGED << is_running, success_count, status_update, progress, dir, downloads,
                    scans, cancelledIdx, stopAt, sleeps >>
    /\ UNCHANGED envVars
    /\ UNCHANGED << sanVars, dkVars, urlVars, viVars, pfVars, uiVars >>

\* line 711
MustSleep == idx < total /\ rate_limit_delay > 0

\* ydl.download returns, the file is where the template resolved to: lines 706-712
TransferDone ==
    /\ pc = "transfer"
    /\ LET call == downloads[Len(downloads)]
           base == SubSeq(call.name, 1, Len(call.name) - Len(ExtPlaceholder))
       IN  dir' = IF call.parent = "save_path" THEN dir \cup { base \o Ext } ELSE dir
    /\ success_count' = success_count + 1
    /\ finished' = Append(finished, Outcome(TRUE, "downloaded", videos[idx]))
    /\ inflight' = inflight \ { idx }
    /\ IF MustSleep
       THEN /\ pc' = "sleep"
            /\ sleeps' = sleeps \cup { idx }
            /\ idx' = idx
       ELSE /\ pc' = "loop"
            /\ idx' = idx + 1
            /\ sleeps' = sleeps
    /\ UNCHANGED << is_running, failed_count, status_update, progress, downloads, scans,
                    raised, cancelledIdx, stopAt >>
    /\ UNCHANGED envVars
    /\ UNCHANGED << sanVars, dkVars, urlVars, viVars, pfVars, uiVars >>

\* time.sleep(self.rate_limit_delay) returns
Wake ==
    /\ pc = "sleep"
    /\ pc' = "loop"
    /\ idx' = idx + 1
    /\ UNCHANGED << is_running, success_count, failed_count, inflight, finished,
                    status_update, progress, dir, downloads, scans, raised,
                    cancelledIdx, stopAt, sleeps >>
    /\ UNCHANGED envVars
    /\ UNCHANGED << sanVars, dkVars, urlVars, viVars, pfVars, uiVars >>

\* mutant: the aggregate line is emitted whatever the flag
EmitsAggregateAlways == TRUE

\* line 719
EmitsAggregate == is_running

\* lines 719-720: the aggregate line, and run returns
Final ==
    /\ pc = "final"
    /\ status_update' =
          IF EmitsAggregate
          THEN Append(status_update,
                      [ what |-> "complete", a |-> success_count, b |-> failed_count ])
          ELSE status_update
    /\ pc' = "done"
    /\ UNCHANGED << is_running, idx, success_count, failed_count, inflight, finished,
                    progress, dir, downloads, scans, raised, cancelledIdx, stopAt, sleeps >>
    /\ UNCHANGED envVars
    /\ UNCHANGED << sanVars, dkVars, urlVars, viVars, pfVars, uiVars >>

Next ==
    \/ stop
    \/ RunStart
    \/ LoopCheck
    \/ ItemBegin
    \/ ProgressHook
    \/ TransferFail
    \/ TransferDone
    \/ Wake
    \/ Final

Init == DlInit

Spec == Init /\ [][Next]_vars

-----------------------------------------------------------------------------
(* SecurityUtils.check_disk_space (SpecDisk)                                 *)

\* line 160: the bytes of a megabyte
MiB == 1024 * 1024

\* how far from a threshold the free space is taken, in bytes
MaxDelta == 6

\* the values of required_mb the window passes (lines 1369 and 1520)
RequiredChoices == { 100, 500 }

\* mutant: a failing query reports no space
check_disk_space_closed(usage, required_mb) ==
    IF usage.ok
    THEN [ has_space |-> usage.free > required_mb * MiB,
           free_mb   |-> [ whole |-> usage.free \div MiB, bytes |-> usage.free % MiB ] ]
    ELSE [ has_space |-> FALSE, free_mb |-> [ whole |-> 0, bytes |-> 0 ] ]

\* SecurityUtils.check_disk_space. free_mb = stat.free / (1024 * 1024) is kept
\* exact as whole megabytes and remaining bytes; free_mb > required_mb compares
\* the same way as stat.free > required_mb * 1024 * 1024.
check_disk_space(usage, required_mb) ==
    IF usage.ok
    THEN [ has_space |-> usage.free > required_mb * MiB,
           free_mb   |-> [ whole |-> usage.free \div MiB, bytes |-> usage.free % MiB ] ]
    ELSE [ has_space |-> TRUE, free_mb |-> [ whole |-> 0, bytes |-> 0 ] ]

\* shutil.disk_usage(path) raises, or reports a free space at or around a threshold
UsageChoices ==
    { [ ok |-> FALSE, free |-> 0 ], [ ok |-> TRUE, free |-> 0 ] }
    \cup { [ ok |-> TRUE, free |-> r * MiB + d ] :
              r \in RequiredChoices, d \in (0 - MaxDelta) .. MaxDelta }

DkInit ==
    /\ dkPc = "init"
    /\ dkUsage \in UsageChoices
    /\ dkRequired \in RequiredChoices
    /\ dkResult = << >>
    /\ SanIdle /\ DlIdle /\ OthersIdle("disk")

DkCall ==
    /\ dkPc = "init"
    /\ dkResult' = check_disk_space(dkUsage, dkRequired)
    /\ dkPc' = "done"
    /\ UNCHANGED << dkUsage, dkRequired >>
    /\ UNCHANGED << sanVars, dlVars, urlVars, viVars, pfVars, uiVars >>

SpecDisk == DkInit /\ [][DkCall]_vars

-----------------------------------------------------------------------------
(* SecurityUtils.is_valid_url (SpecUrl)                                      *)

\* str.lower()
Lower(s) ==
    LET upper == << "A","B","C","D","E","F","G","H","I","J","K","L","M",
                    "N","O","P","Q","R","S","T","U","V","W","X","Y","Z" >>
        lower == << "a","b","c","d","e","f","g","h","i","j","k","l","m",
                    "n","o","p","q","r","s","t","u","v","w","x","y","z" >>
    IN  [ i \in 1 .. Len(s) |->
            IF \E k \in 1 .. 26 : upper[k] = s[i]
            THEN lower[CHOOSE k \in 1 .. 26 : upper[k] = s[i]]
            ELSE s[i] ]

\* s.find(c) + 1: the position of the first c in s, 0 when there is none
Find(s, c) ==
    IF \E i \in 1 .. Len(s) : s[i] = c
    THEN CHOOSE i \in 1 .. Len(s) : s[i] = c /\ \A j \in 1 .. (i - 1) : s[j] # c
    ELSE 0

\* s.count(c)
Count(s, c) == Cardinality({ i \in 1 .. Len(s) : s[i] = c })

\* the string literals of the source, character by character (with their lines)
Text ==
    [ http |-> << "h", "t", "t", "p" >>,  \* 121, 501
      https |-> << "h", "t", "t", "p", "s" >>,  \* 121
      tiktok |-> << "t", "i", "k", "t", "o", "k", ".", "c", "o", "m" >>,  \* 336
      youtube |-> << "y", "o", "u", "t", "u", "b", "e", ".", "c", "o", "m" >>,  \* 338
      youtu_be |-> << "y", "o", "u", "t", "u", ".", "b", "e" >>,  \* 338
      instagram |-> << "i", "n", "s", "t", "a", "g", "r", "a", "m", ".", "c", "o", "m" >>,  \* 340, 576
      facebook |-> << "f", "a", "c", "e", "b", "o", "o", "k", ".", "c", "o", "m" >>,  \* 342
      fb |-> << "f", "b", ".", "c", "o", "m" >>,  \* 342
      Untitled |-> << "U", "n", "t", "i", "t", "l", "e", "d" >>,  \* 394, 498, 583
      unknown |-> << "u", "n", "k", "n", "o", "w", "n" >>,  \* 584
      video_suffix |-> << "_", "v", "i", "d", "e", "o" >>,  \* 591
      video_prefix |-> << "v", "i", "d", "e", "o", "_" >>,  \* 497, 595
      private |-> << "p", "r", "i", "v", "a", "t", "e" >>,  \* 450
      code429 |-> << "4", "2", "9" >>,  \* 452
      rate |-> << "r", "a", "t", "e" >>,  \* 452
      division |-> << "d", "i", "v", "i", "s", "i", "o", "n", " ", "b", "y", " ", "z", "e", "r", "o" >>,  \* 405
      instagram_p |-> << "h", "t", "t", "p", "s", ":", "/", "/", "w", "w", "w", ".", "i", "n", "s", "t", "a", "g", "r", "a", "m", ".", "c", "o", "m", "/", "p", "/" >>,  \* 389
      tiktok_video |-> << "h", "t", "t", "p", "s", ":", "/", "/", "w", "w", "w", ".", "t", "i", "k", "t", "o", "k", ".", "c", "o", "m", "/", "@", "u", "s", "e", "r", "/", "v", "i", "d", "e", "o", "/" >>,  \* 503
      youtube_watch |-> << "h", "t", "t", "p", "s", ":", "/", "/", "w", "w", "w", ".", "y", "o", "u", "t", "u", "b", "e", ".", "c", "o", "m", "/", "w", "a", "t", "c", "h", "?", "v", "=" >> ]  \* 505

\* urllib.parse.urlparse(url), as far as is_valid_url reads it: the scheme, the
\* netloc, and whether the call raises ValueError (a netloc with one of '[' and
\* ']' but not the other).
urlparse(url) ==
    LET scheme_chars == Letters \cup Digits \cup { "+", "-", "." }
        colon     == Find(url, ":")
        hasScheme == /\ colon > 1
                     /\ url[1] \in Letters
                     /\ \A j \in 1 .. (colon - 1) : url[j] \in scheme_chars
        scheme    == IF hasScheme THEN Lower(SubSeq(url, 1, colon - 1)) ELSE << >>
        rest      == IF hasScheme THEN SubSeq(url, colon + 1, Len(url)) ELSE url
        hasNetloc == Len(rest) >= 2 /\ rest[1] = "/" /\ rest[2] = "/"
        delims    == { i \in 3 .. Len(rest) : rest[i] \in { "/", "?", "#" } }
        last      == IF delims = {} THEN Len(rest)
                     ELSE (CHOOSE i \in delims : \A j \in delims : i <= j) - 1
        netloc    == IF hasNetloc THEN SubSeq(rest, 3, last) ELSE << >>
    IN  [ raises |-> (Find(netloc, "[") > 0) # (Find(netloc, "]") > 0),
          scheme |-> scheme,
          netloc |-> netloc ]

\* the hostname property of the parse result ('' here where Python gives None)
hostname(netloc) ==
    LET ats       == { i \in 1 .. Len(netloc) : netloc[i] = "@" }
        at        == IF ats = {} THEN 0 ELSE CHOOSE i \in ats : \A j \in ats : j <= i
        hostinfo  == SubSeq(netloc, at + 1, Len(netloc))
        open      == Find(hostinfo, "[")
        bracketed == SubSeq(hostinfo, open + 1, Len(hostinfo))
        close     == Find(bracketed, "]")
        colon     == Find(hostinfo, ":")
    IN  IF open > 0
        THEN Lower(IF close > 0 THEN SubSeq(bracketed, 1, close - 1) ELSE bracketed)
        ELSE Lower(IF colon > 0 THEN SubSeq(hostinfo, 1, colon - 1) ELSE hostinfo)

\* line 125: the number of '/' a URL may hold
SlashLimit == 10

\* SecurityUtils.is_valid_url
is_valid_url(url) ==
    LET result == urlparse(url)
    IN  IF result.raises THEN FALSE
        ELSE IF result.scheme \notin { Text.http, Text.https } THEN FALSE
        ELSE IF result.netloc = << >> THEN FALSE
        ELSE IF Contains(url, << ".", "." >>) \/ Count(url, "/") > SlashLimit THEN FALSE
        ELSE TRUE

\* the largest number of path segments
MaxSegments == 9

\* the pieces the arguments are written from: scheme, separator, authority,
\* a number of path segments '/a', and a tail
UrlPieces ==
    [ scheme    : { << "h", "t", "t", "p" >>,
                  << "h", "t", "t", "p", "s" >>,
                  << "H", "T", "T", "P" >>,
                  << "f", "t", "p" >>,
                  << "1", "h", "t", "t", "p" >>,
                  << >> },
      separator : { << ":", "/", "/" >>,
                  << ":", "/" >>,
                  << ":" >>,
                  << "/", "/" >> },
      authority : { << >>,
                  << "a", ".", "b" >>,
                  << "A", ".", "b", ":", "8", "0" >>,
                  << ":", "8", "0" >>,
                  << "u", "@" >>,
                  << "u", "@", "a", ".", "b" >>,
                  << "a", ".", ".", "b" >>,
                  << "[" >> },
      segments  : 0 .. MaxSegments,
      tail      : { << >>,
                  << "/" >>,
                  << "/", ".", "." >>,
                  << "?", "q", "=", "/" >>,
                  << ".", "/", "." >> } ]

UrlOf(parts) ==
    LET path == [ i \in 1 .. (2 * parts.segments) |-> IF i % 2 = 1 THEN "/" ELSE "a" ]
    IN  parts.scheme \o parts.separator \o parts.authority \o path \o parts.tail

UrlInit ==
    /\ urlPc = "init"
    /\ urlParts \in UrlPieces
    /\ urlIn = UrlOf(urlParts)
    /\ urlResult = FALSE
    /\ SanIdle /\ DlIdle /\ OthersIdle("url")

UrlCall ==
    /\ urlPc = "init"
    /\ urlResult' = is_valid_url(urlIn)
    /\ urlPc' = "done"
    /\ UNCHANGED << urlParts, urlIn >>
    /\ UNCHANGED << sanVars, dlVars, dkVars, viVars, pfVars, uiVars >>

SpecUrl == UrlInit /\ [][UrlCall]_vars

-----------------------------------------------------------------------------
(* VideoInfoThread (SpecInfo)                                                *)

\* a key the dict does not hold
Missing == << "Missing" >>

\* d.get(key, default)
Get(d, key, default) == IF d[key] = Missing THEN default ELSE d[key]

\* str(x) inside an f-string, for x a str or None
Str(x) == IF x = NoneValue THEN << "N", "o", "n", "e" >> ELSE x

\* lines 579-580: the length a caption line is cut to
TitleLimit == 100

\* lines 573-592: the title of the record made from info for url
info_title(info, url) ==
    LET title0      == Get(info, "title", << >>)
        description == Get(info, "description", << >>)
        newline     == Find(description, "\n")
        first_line  == IF newline = 0 THEN description
                       ELSE SubSeq(description, 1, newline - 1)
        title1      == IF /\ Contains(url, Text.instagram)
                          /\ ~Falsy(description)
                          /\ description # title0
                       THEN Prefix(first_line, TitleLimit)
                       ELSE title0
        uploader    == Get(info, "uploader", Get(info, "channel", Text.unknown))
        upload_date == Get(info, "upload_date", << >>)
    IN  IF Falsy(title1) \/ title1 = Text.Untitled
        THEN IF ~Falsy(upload_date)
             THEN Str(uploader) \o << "_" >> \o Str(upload_date)
             ELSE Str(uploader) \o Text.video_suffix
        ELSE title1

\* line 595: info.get('id', '') or info.get('display_id', f'video_{idx}')
info_id(info, i) ==
    LET id == Get(info, "id", << >>)
    IN  IF ~Falsy(id) THEN id ELSE Get(info, "display_id", Text.video_prefix \o Decimal(i))

\* lines 594-602 (the fields the rest of the program does not read are left out)
video_info(info, i, url) ==
    [ id |-> info_id(info, i), title |-> info_title(info, url), url |-> url ]

\* an Instagram URL, another valid URL, and one that is_valid_url rejects
UrlPool == { << "h", "t", "t", "p", "s", ":", "/", "/", "i", "n", "s", "t", "a", "g", "r", "a", "m", ".", "c", "o", "m", "/", "p", "/", "a" >>,
             << "h", "t", "t", "p", "s", ":", "/", "/", "y", "o", "u", "t", "u", ".", "b", "e", "/", "a" >>,
             << "y", "o", "u", "t", "u", ".", "b", "e", "/", "a" >> }

\* the longest list of URLs
MaxUrls == 2

RECURSIVE UrlLists(_)
UrlLists(n) ==
    IF n = 0 THEN { << >> }
    ELSE LET shorter == UrlLists(n - 1)
         IN  shorter \cup { Append(l, u) : l \in { m \in shorter : Len(m) = n - 1 },
                                           u \in UrlPool }

\* a list of seven URLs of which the first alone is valid
SevenUrls ==
    LET valid   == << "h", "t", "t", "p", "s", ":", "/", "/", "y", "o", "u", "t", "u", ".", "b", "e", "/", "a" >>
        invalid == << "y", "o", "u", "t", "u", ".", "b", "e", "/", "a" >>
    IN  << valid, invalid, invalid, invalid, invalid, invalid, invalid >>

\* a text of n characters
Long(n) == [ i \in 1 .. n |-> "x" ]

\* a dict without any of the keys read
NoInfo == [ id |-> Missing, display_id |-> Missing, title |-> Missing,
            description |-> Missing, uploader |-> Missing, channel |-> Missing,
            upload_date |-> Missing ]

\* ydl.extract_info(url, download=False) raises, returns None, or returns a dict
InfoChoices ==
    LET plain == [ NoInfo EXCEPT !.id = << "x", "1" >>, !.title = << "T" >>,
                                 !.uploader = << "u" >> ]
        dicts ==
          { plain,
            \* ids
            [ plain EXCEPT !.id = Missing ],
            [ plain EXCEPT !.id = << >> ],
            [ plain EXCEPT !.id = Missing, !.display_id = << "d", "2" >> ],
            [ plain EXCEPT !.id = << >>, !.display_id = << >> ],
            [ plain EXCEPT !.id = NoneValue, !.display_id = NoneValue ],
            \* titles and captions
            [ plain EXCEPT !.title = Long(TitleLimit + 1) ],
            [ plain EXCEPT !.description = << "T" >> ],
            [ plain EXCEPT !.description = << "c", "\n", "d" >> ],
            [ plain EXCEPT !.description = << "\n", "d" >> ],
            [ plain EXCEPT !.description = Long(TitleLimit + 1) ],
            \* no usable title
            [ plain EXCEPT !.title = Missing, !.upload_date = << "2", "0", "2", "4" >> ],
            [ plain EXCEPT !.title = NoneValue, !.upload_date = << >> ],
            [ plain EXCEPT !.title = << >>, !.uploader = Missing, !.channel = << "c", "h" >> ],
            [ plain EXCEPT !.title = << >>, !.uploader = Missing ],
            [ plain EXCEPT !.title = Text.Untitled, !.uploader = NoneValue ],
            [ plain EXCEPT !.title = << >>, !.uploader = << >> ],
            [ plain EXCEPT !.title = << >>, !.uploader = Long(TitleLimit) ] }
    IN  { [ tag |-> "raises", info |-> NoInfo ], [ tag |-> "None", info |-> NoInfo ] }
        \cup { [ tag |-> "dict", info |-> d ] : d \in dicts }

\* mutant: the share is scaled to 100 whatever the span
ScaledToHundred(base, n, of, span) == base + (n * 100) \div of

\* base + int((n / of) * span); for the sizes drawn here the float expression and
\* the integer division agree
Scaled(base, n, of, span) == base + (n * span) \div of

ViInit ==
    /\ viUrls \in UrlLists(MaxUrls) \cup { SevenUrls }
    /\ viRunning = TRUE
    /\ viPc = "idle"
    /\ viIdx = 0
    /\ viInfo = [ tag |-> "none", info |-> NoInfo ]
    /\ viVideos = << >>
    /\ viStatus = << >>
    /\ viProgress = << >>
    /\ viFinished = << >>
    /\ viLog = << >>
    /\ SanIdle /\ DlIdle /\ OthersIdle("info")

\* VideoInfoThread.stop, called from another thread at any moment of the run
ViStop ==
    /\ viPc \notin { "off", "done" }
    /\ viRunning
    /\ viRunning' = FALSE
    /\ UNCHANGED << viUrls, viPc, viIdx, viInfo, viVideos, viStatus, viProgress,
                    viFinished, viLog >>
    /\ UNCHANGED << sanVars, dlVars, dkVars, urlVars, pfVars, uiVars >>

\* lines 550-551
ViStart ==
    /\ viPc = "idle"
    /\ viVideos' = << >>
    /\ viPc' = "loop"
    /\ UNCHANGED << viUrls, viRunning, viIdx, viInfo, viStatus, viProgress, viFinished,
                    viLog >>
    /\ UNCHANGED << sanVars, dlVars, dkVars, urlVars, pfVars, uiVars >>

\* lines 553-555: the next URL, if there is one and the thread was not stopped
ViLoop ==
    /\ viPc = "loop"
    /\ IF viIdx = Len(viUrls)
       THEN viPc' = "final" /\ viIdx' = viIdx
       ELSE /\ viIdx' = viIdx + 1
            /\ viPc' = IF viRunning THEN "url" ELSE "final"
    /\ UNCHANGED << viUrls, viRunning, viInfo, viVideos, viStatus, viProgress,
                    viFinished, viLog >>
    /\ UNCHANGED << sanVars, dlVars, dkVars, urlVars, pfVars, uiVars >>

\* lines 558-564
ViValidate ==
    /\ viPc = "url"
    /\ IF ~is_valid_url(viUrls[viIdx])
       THEN /\ viStatus' = Append(viStatus, [ kind |-> "Invalid URL", idx |-> viIdx ])
            /\ viLog' = Append(viLog, "invalid")
            /\ viPc' = "loop"
            /\ viProgress' = viProgress
       ELSE /\ viStatus' = Append(viStatus, [ kind |-> "Extracting info", idx |-> viIdx ])
            /\ viProgress' = Append(viProgress, Scaled(0, viIdx, Len(viUrls), 90))
            /\ viLog' = viLog
            /\ viPc' = "extract"
    /\ UNCHANGED << viUrls, viRunning, viIdx, viInfo, viVideos, viFinished >>
    /\ UNCHANGED << sanVars, dlVars, dkVars, urlVars, pfVars, uiVars >>

\* mutant: a failing extraction ends the loop
ExtractionFailedAborts ==
    /\ viStatus' = Append(viStatus, [ kind |-> "Failed", idx |-> viIdx ])
    /\ viLog' = Append(viLog, "raised")
    /\ viVideos' = viVideos
    /\ viPc' = "final"

\* lines 605-607: the per-URL handler, then the next turn of the loop
ExtractionFailed ==
    /\ viStatus' = Append(viStatus, [ kind |-> "Failed", idx |-> viIdx ])
    /\ viLog' = Append(viLog, "raised")
    /\ viVideos' = viVideos
    /\ viPc' = "loop"

\* lines 572-603
ViExtract ==
    /\ viPc = "extract"
    /\ \E r \in InfoChoices :
        /\ viInfo' = r
        /\ CASE r.tag = "raises" -> ExtractionFailed
             [] r.tag = "None" ->
                    /\ viLog' = Append(viLog, "empty")
                    /\ UNCHANGED << viVideos, viStatus >>
                    /\ viPc' = "loop"
             [] OTHER ->
                    /\ viVideos' = Append(viVideos, video_info(r.info, viIdx, viUrls[viIdx]))
                    /\ viLog' = Append(viLog, "record")
                    /\ viStatus' = viStatus
                    /\ viPc' = "loop"
    /\ UNCHANGED << viUrls, viRunning, viIdx, viProgress, viFinished >>
    /\ UNCHANGED << sanVars, dlVars, dkVars, urlVars, pfVars, uiVars >>

\* mutant: a failure delivers the records collected so far
ViFinalPartial ==
    /\ viPc = "final"
    /\ viProgress' = Append(viProgress, 100)
    /\ viFinished' = Append(viFinished,
            IF viVideos # << >> /\ viRunning
            THEN [ ok |-> TRUE, message |-> "Loaded", videos |-> viVideos ]
            ELSE [ ok |-> FALSE, message |-> "No valid URLs found", videos |-> viVideos ])
    /\ viPc' = "done"
    /\ UNCHANGED << viUrls, viRunning, viIdx, viInfo, viVideos, viStatus, viLog >>
    /\ UNCHANGED << sanVars, dlVars, dkVars, urlVars, pfVars, uiVars >>

\* lines 609-614
ViFinal ==
    /\ viPc = "final"
    /\ viProgress' = Append(viProgress, 100)
    /\ viFinished' = Append(viFinished,
            IF viVideos # << >> /\ viRunning
            THEN [ ok |-> TRUE, message |-> "Loaded", videos |-> viVideos ]
            ELSE [ ok |-> FALSE, message |-> "No valid URLs found", videos |-> << >> ])
    /\ viPc' = "done"
    /\ UNCHANGED << viUrls, viRunning, viIdx, viInfo, viVideos, viStatus, viLog >>
    /\ UNCHANGED << sanVars, dlVars, dkVars, urlVars, pfVars, uiVars >>

ViNext == ViStop \/ ViStart \/ ViLoop \/ ViValidate \/ ViExtract \/ ViFinal

SpecInfo == ViInit /\ [][ViNext]_vars

-----------------------------------------------------------------------------
(* ProfileFetchThread and InstagramScraperThread (SpecProfile)               *)

\* s.startswith(pre)
StartsWith(s, pre) == Len(s) >= Len(pre) /\ SubSeq(s, 1, Len(pre)) = pre

\* mutant: Facebook is looked for before YouTube
detect_platform_facebook_first(url) ==
    LET url_lower == Lower(url)
    IN  IF Contains(url_lower, Text.tiktok) THEN "TikTok"
        ELSE IF Contains(url_lower, Text.facebook) \/ Contains(url_lower, Text.fb)
             THEN "Facebook"
        ELSE IF Contains(url_lower, Text.youtube) \/ Contains(url_lower, Text.youtu_be)
             THEN "YouTube"
        ELSE IF Contains(url_lower, Text.instagram) THEN "Instagram"
        ELSE "Unknown"

\* ProfileFetchThread.detect_platform
detect_platform(url) ==
    LET url_lower == Lower(url)
    IN  IF Contains(url_lower, Text.tiktok) THEN "TikTok"
        ELSE IF Contains(url_lower, Text.youtube) \/ Contains(url_lower, Text.youtu_be)
             THEN "YouTube"
        ELSE IF Contains(url_lower, Text.instagram) THEN "Instagram"
        ELSE IF Contains(url_lower, Text.facebook) \/ Contains(url_lower, Text.fb)
             THEN "Facebook"
        ELSE "Unknown"

\* ProfileFetchThread.extract_instagram_username: the characters after the first
\* 'instagram.com/' that is followed by a character other than '/' and '?', up
\* to the next '/' or '?'; None when there is no such place. (The second pattern
\* matches only where the first does.)
extract_instagram_username(url) ==
    LET key    == Text.instagram \o << "/" >>
        starts == { i \in 1 .. Len(url) :
                      /\ i + Len(key) <= Len(url)
                      /\ SubSeq(url, i, i + Len(key) - 1) = key
                      /\ url[i + Len(key)] \notin { "/", "?" } }
    IN  IF starts = {} THEN NoneValue
        ELSE LET first == (CHOOSE i \in starts : \A j \in starts : i <= j) + Len(key)
                 stops == { i \in first .. Len(url) : url[i] \in { "/", "?" } }
                 last  == IF stops = {} THEN Len(url)
                          ELSE (CHOOSE i \in stops : \A j \in stops : i <= j) - 1
             IN  SubSeq(url, first, last)

\* line 394: the length a caption is cut to
CaptionLimit == 100

\* line 510: the length an entry's title is cut to
EntryTitleLimit == 100

\* lines 390-400 (the fields the rest of the program does not read are left out)
post_video_info(post) ==
    [ id    |-> post.shortcode,
      title |-> IF ~Falsy(post.caption) THEN Prefix(post.caption, CaptionLimit)
                ELSE Text.Untitled,
      url   |-> Text.instagram_p \o post.shortcode \o << "/" >> ]

\* line 499: entry.get('url') or entry.get('webpage_url', '')
entry_url(entry) ==
    LET url == Get(entry, "url", NoneValue)
    IN  IF ~Falsy(url) THEN url ELSE Get(entry, "webpage_url", << >>)

\* title[:100] raises TypeError on a None title, video_url.startswith raises
\* AttributeError on a None URL
entry_raises(entry) ==
    \/ entry_url(entry) = NoneValue
    \/ Get(entry, "title", Text.Untitled) = NoneValue

\* lines 497-513, for the idx-th entry (from 0) of the listing
entry_video_info(entry, i, platform) ==
    LET video_id  == Get(entry, "id", Text.video_prefix \o Decimal(i))
        title     == Get(entry, "title", Text.Untitled)
        video_url == entry_url(entry)
    IN  [ id    |-> video_id,
          title |-> Prefix(title, EntryTitleLimit),
          url   |-> IF ~StartsWith(video_url, Text.http)
                    THEN IF platform = "TikTok" THEN Text.tiktok_video \o Str(video_id)
                         ELSE IF platform = "YouTube"
                              THEN Text.youtube_watch \o Str(video_id)
                         ELSE video_url
                    ELSE video_url ]

\* ---- what the collaborators may give

\* the most posts or entries a profile holds
MaxPosts == 3

\* the largest max_videos
MaxItems == 2

ProfileUrls == { << "h", "t", "t", "p", "s", ":", "/", "/", "t", "i", "k", "t", "o", "k", ".", "c", "o", "m", "/", "@", "u" >>,
                 << "h", "t", "t", "p", "s", ":", "/", "/", "y", "o", "u", "t", "u", "b", "e", ".", "c", "o", "m", "/", "@", "u" >>,
                 << "h", "t", "t", "p", "s", ":", "/", "/", "i", "n", "s", "t", "a", "g", "r", "a", "m", ".", "c", "o", "m", "/", "u" >>,
                 << "h", "t", "t", "p", "s", ":", "/", "/", "I", "n", "s", "t", "a", "g", "r", "a", "m", ".", "c", "o", "m", "/", "u" >>,
                 << "h", "t", "t", "p", "s", ":", "/", "/", "f", "a", "c", "e", "b", "o", "o", "k", ".", "c", "o", "m", "/", "u" >>,
                 << "h", "t", "t", "p", "s", ":", "/", "/", "x", ".", "y", "/", "u" >>,
                 << "h", "t", "t", "p", "s", ":", "/", "/", "y", "o", "u", "t", "u", ".", "b", "e", "/", "u" >>,
                 << "h", "t", "t", "p", "s", ":", "/", "/", "f", "b", ".", "c", "o", "m", "/", "u" >>,
                 << "h", "t", "t", "p", "s", ":", "/", "/", "y", "o", "u", "t", "u", "b", "e", ".", "c", "o", "m", "/", "t", "i", "k", "t", "o", "k", ".", "c", "o", "m" >>,
                 << "h", "t", "t", "p", "s", ":", "/", "/", "f", "b", ".", "c", "o", "m", "/", "i", "n", "s", "t", "a", "g", "r", "a", "m", ".", "c", "o", "m", "/", "p", "i", "r", "a", "t", "e" >>,
                 << "H", "T", "T", "P", "S", ":", "/", "/", "F", "A", "C", "E", "B", "O", "O", "K", ".", "C", "O", "M", "/", "Y", "O", "U", "T", "U", ".", "B", "E" >> }

\* a post of the profile as instaloader hands it out
PostChoices ==
    LET s1 == << "s", "1" >>
    IN  { [ is_video |-> FALSE, shortcode |-> s1, caption |-> NoneValue ] }
        \cup { [ is_video |-> TRUE, shortcode |-> s1, caption |-> c ] :
                  c \in { NoneValue, << >>, << "T" >>, Long(CaptionLimit + 1) } }

\* no exception
NoError == [ cause |-> "none", text |-> << >> ]

\* an exception of the Instagram enumeration, by what went wrong and by its text;
\* instaloader names the profile it does not find
Errors(username) ==
    { [ cause |-> "private", text |-> << "P", "r", "o", "f", "i", "l", "e", " ", "i", "s", " ", "P", "r", "i", "v", "a", "t", "e" >> ],
      [ cause |-> "rate limit", text |-> << "4", "2", "9", " ", "T", "o", "o", " ", "M", "a", "n", "y" >> ],
      [ cause |-> "rate limit", text |-> << "R", "a", "t", "e", " ", "l", "i", "m", "i", "t", "e", "d" >> ],
      [ cause |-> "not found",
        text |-> << "P", "r", "o", "f", "i", "l", "e", " " >> \o username \o << " ", "d", "o", "e", "s", " ", "n", "o", "t", " ", "e", "x", "i", "s", "t", "." >> ] }

\* count / self.max_videos with max_videos = 0 (line 406)
ZeroDivisionError == [ cause |-> "other", text |-> Text.division ]

NoEntry == [ id |-> Missing, title |-> Missing, url |-> Missing, webpage_url |-> Missing ]

\* an entry of a flattened listing: None, or a dict
EntryChoices ==
    LET plain == [ NoEntry EXCEPT !.id = << "v", "1" >>, !.title = << "T" >>,
                                  !.url = << "h", "t", "t", "p", "s", ":", "/", "/", "x", ".", "y", "/", "v" >> ]
        dicts ==
          { NoEntry,
            plain,
            [ plain EXCEPT !.url = Missing ],
            [ plain EXCEPT !.url = << >>, !.webpage_url = << "h", "t", "t", "p", "s", ":", "/", "/", "x", ".", "y", "/", "w" >> ],
            [ plain EXCEPT !.url = << "/", "v" >> ],
            [ plain EXCEPT !.url = Missing, !.webpage_url = NoneValue ],
            [ plain EXCEPT !.id = Missing ],
            [ plain EXCEPT !.id = << >> ],
            [ plain EXCEPT !.id = NoneValue, !.url = Missing ],
            [ plain EXCEPT !.title = Missing ],
            [ plain EXCEPT !.title = << >> ],
            [ plain EXCEPT !.title = NoneValue ],
            [ plain EXCEPT !.title = Long(EntryTitleLimit + 1) ] }
    IN  { [ tag |-> "None", dict |-> NoEntry ] }
        \cup { [ tag |-> "dict", dict |-> d ] : d \in dicts }

\* 'playlistend': self.max_videos (line 474): the extractor lists the entries up
\* to that position, so of a profile of size entries the listing holds the first
\* max_videos
Listed(size, max_videos) == IF size < max_videos THEN size ELSE max_videos

PfInit ==
    /\ pfEnv \in [ thread : { "ProfileFetchThread", "InstagramScraperThread" },
                   instaloader : BOOLEAN, size : 0 .. MaxPosts ]
    /\ pfUrl \in IF pfEnv.thread = "ProfileFetchThread" THEN ProfileUrls ELSE { << >> }
    /\ pfMax \in 0 .. MaxItems
    /\ pfRunning = TRUE
    /\ pfPc = "idle"
    /\ pfPlatform = ""
    /\ pfCount = 0
    /\ pfEntries = 0
    /\ pfVideos = << >>
    /\ pfStatus = << >>
    /\ pfProgress = << >>
    /\ pfFinished = << >>
    /\ pfError = NoError
    /\ SanIdle /\ DlIdle /\ OthersIdle("profile")

PfEmit(ok, message, list) ==
    pfFinished' = Append(pfFinished, [ ok |-> ok, message |-> message, videos |-> list ])

\* stop(), called from another thread at any moment of the run
PfStop ==
    /\ pfPc \notin { "off", "done" }
    /\ pfRunning
    /\ pfRunning' = FALSE
    /\ UNCHANGED << pfUrl, pfMax, pfEnv, pfError, pfPc, pfPlatform, pfCount, pfEntries, pfVideos,
                    pfStatus, pfProgress, pfFinished >>
    /\ UNCHANGED << sanVars, dlVars, dkVars, urlVars, viVars, uiVars >>

\* lines 416-439 and 461-462: up to the call of scrape_instagram_with_instaloader,
\* or to the second test of the flag
PfStart ==
    /\ pfPc = "idle"
    /\ pfEnv.thread = "ProfileFetchThread"
    /\ IF ~pfRunning
       THEN /\ pfPc' = "done"
            /\ UNCHANGED << pfPlatform, pfStatus, pfProgress, pfFinished >>
       ELSE LET platform == detect_platform(pfUrl)
                username == extract_instagram_username(pfUrl)
                detected == Append(pfStatus, [ kind |-> "Detected platform",
                                               text |-> platform ])
            IN  /\ pfPlatform' = platform
                /\ IF platform # "Instagram"
                   THEN /\ pfStatus' = detected
                        /\ pfProgress' = Append(pfProgress, 10)
                        /\ pfFinished' = pfFinished
                        /\ pfPc' = "fetch"
                   ELSE IF ~pfEnv.instaloader
                   THEN /\ pfStatus' = detected
                        /\ pfProgress' = Append(pfProgress, 10)
                        /\ PfEmit(FALSE, "Instagram scraping requires 'instaloader'", << >>)
                        /\ pfPc' = "done"
                   ELSE IF Falsy(username)
                   THEN /\ pfStatus' = detected
                        /\ pfProgress' = Append(pfProgress, 10)
                        /\ PfEmit(FALSE, "Could not extract Instagram username from URL",
                                  << >>)
                        /\ pfPc' = "done"
                   ELSE /\ pfStatus' = Append(detected, [ kind |-> "Fetching Instagram profile",
                                                          text |-> username ])
                        /\ pfProgress' = pfProgress \o << 10, 30 >>
                        /\ pfFinished' = pfFinished
                        /\ pfPc' = "scrape"
    /\ UNCHANGED << pfUrl, pfMax, pfEnv, pfError, pfRunning, pfCount, pfEntries, pfVideos >>
    /\ UNCHANGED << sanVars, dlVars, dkVars, urlVars, viVars, uiVars >>

\* lines 450-455: the message chosen from the text of the exception
InstagramMessage(error_msg) ==
    IF Contains(Lower(error_msg), Text.private)
    THEN "This Instagram profile is private."
    ELSE IF Contains(error_msg, Text.code429) \/ Contains(Lower(error_msg), Text.rate)
    THEN "Instagram rate limit reached."
    ELSE "Instagram error"

\* lines 447-456: the handler of the Instagram branch
InstagramError(e) ==
    LET error_msg == e.text
    IN  /\ pfError' = e
        /\ PfEmit(FALSE, InstagramMessage(error_msg), << >>)
        /\ pfPc' = "done"

\* lines 360-378: the profile is looked up, which may raise
PfScrape ==
    /\ pfPc = "scrape"
    /\ \/ /\ pfStatus' = pfStatus \o << [ kind |-> "Using instaloader", text |-> "" ],
                                        [ kind |-> "Found profile", text |-> "" ],
                                        [ kind |-> "Total posts", text |-> "" ] >>
          /\ pfVideos' = << >>
          /\ pfCount' = 0
          /\ pfPc' = "posts"
          /\ pfFinished' = pfFinished
          /\ pfError' = pfError
       \/ \E e \in Errors(extract_instagram_username(pfUrl)) :
          /\ pfStatus' = Append(pfStatus, [ kind |-> "Using instaloader", text |-> "" ])
          /\ InstagramError(e)
          /\ UNCHANGED << pfVideos, pfCount >>
    /\ UNCHANGED << pfUrl, pfMax, pfEnv, pfRunning, pfPlatform, pfEntries, pfProgress >>
    /\ UNCHANGED << sanVars, dlVars, dkVars, urlVars, viVars, uiVars >>

\* mutant: one post more than max_videos is examined
ReachedLimitLate(count, max_videos) == count > max_videos

\* line 384 (and 762): count >= self.max_videos
ReachedLimit(count, max_videos) == count >= max_videos

\* lines 380-407: one turn of the loop over profile.get_posts(); the enumerator
\* hands out a post, raises, or is exhausted
PfPost ==
    /\ pfPc = "posts"
    /\ \/ /\ pfCount < pfEnv.size
          /\ pfRunning
          /\ ~ReachedLimit(pfCount, pfMax)
          /\ \E post \in PostChoices :
              /\ pfCount' = pfCount + 1
              /\ IF post.is_video
                 THEN /\ pfVideos' = Append(pfVideos, post_video_info(post))
                      /\ pfStatus' = Append(pfStatus, [ kind |-> "Found video",
                                                        text |-> post.shortcode ])
                 ELSE UNCHANGED << pfVideos, pfStatus >>
              /\ IF pfMax = 0
                 THEN \* count / self.max_videos raises ZeroDivisionError
                      /\ InstagramError(ZeroDivisionError)
                      /\ pfProgress' = pfProgress
                 ELSE /\ pfProgress' = Append(pfProgress, Scaled(60, pfCount + 1, pfMax, 30))
                      /\ pfPc' = "posts"
                      /\ pfFinished' = pfFinished
                      /\ pfError' = pfError
       \/ /\ pfCount < pfEnv.size
          /\ \E e \in Errors(extract_instagram_username(pfUrl)) : InstagramError(e)
          /\ UNCHANGED << pfCount, pfVideos, pfStatus, pfProgress >>
       \/ /\ pfCount = pfEnv.size \/ ~pfRunning \/ ReachedLimit(pfCount, pfMax)
          /\ pfPc' = "scraped"
          /\ UNCHANGED << pfCount, pfVideos, pfStatus, pfProgress, pfFinished, pfError >>
    /\ UNCHANGED << pfUrl, pfMax, pfEnv, pfRunning, pfPlatform, pfEntries >>
    /\ UNCHANGED << sanVars, dlVars, dkVars, urlVars, viVars, uiVars >>

\* lines 441-446
PfScraped ==
    /\ pfPc = "scraped"
    /\ IF pfVideos # << >> /\ pfRunning
       THEN /\ pfProgress' = Append(pfProgress, 100)
            /\ PfEmit(TRUE, "Found videos from Instagram", pfVideos)
       ELSE /\ pfProgress' = pfProgress
            /\ PfEmit(FALSE, "No videos found in this Instagram profile", << >>)
    /\ pfPc' = "done"
    /\ UNCHANGED << pfUrl, pfMax, pfEnv, pfError, pfRunning, pfPlatform, pfCount, pfEntries,
                    pfVideos, pfStatus >>
    /\ UNCHANGED << sanVars, dlVars, dkVars, urlVars, viVars, uiVars >>

\* lines 464-494: the flattened listing is requested; the extractor raises,
\* returns None, or returns a dict with the entries listed
PfFetch ==
    /\ pfPc = "fetch"
    /\ IF ~pfRunning
       THEN /\ pfPc' = "done"
            /\ UNCHANGED << pfStatus, pfProgress, pfFinished, pfEntries >>
       ELSE /\ pfStatus' = Append(pfStatus, [ kind |-> "Fetching profile",
                                              text |-> pfPlatform ])
            /\ \/ /\ pfProgress' = Append(pfProgress, 30)
                  /\ PfEmit(FALSE, "Error", << >>)
                  /\ pfEntries' = pfEntries
                  /\ pfPc' = "done"
               \/ /\ pfProgress' = Append(pfProgress, 30)
                  /\ PfEmit(FALSE, "Could not fetch profile information", << >>)
                  /\ pfEntries' = pfEntries
                  /\ pfPc' = "done"
               \/ /\ pfEntries' = Listed(pfEnv.size, pfMax)
                  /\ pfProgress' = pfProgress \o << 30, 60 >>
                  /\ IF pfEntries' = 0
                     THEN /\ PfEmit(FALSE, "No videos found in this profile.", << >>)
                          /\ pfPc' = "done"
                     ELSE /\ pfFinished' = pfFinished
                          /\ pfPc' = "entries"
    /\ pfVideos' = << >>
    /\ pfCount' = 0
    /\ UNCHANGED << pfUrl, pfMax, pfEnv, pfError, pfRunning, pfPlatform >>
    /\ UNCHANGED << sanVars, dlVars, dkVars, urlVars, viVars, uiVars >>

\* lines 496-520: one turn of the loop over the entries (pfCount is idx); what
\* the entry holds is seen when it is read
PfEntry ==
    /\ pfPc = "entries"
    /\ \/ /\ pfCount < pfEntries
          /\ pfRunning
          /\ \E choice \in EntryChoices :
              LET entry == choice.dict
              IN
              IF choice.tag = "None" \/ entry = NoEntry  \* `if entry:` fails (500)
              THEN /\ pfProgress' = Append(pfProgress, Scaled(60, pfCount, pfEntries, 30))
                   /\ pfCount' = pfCount + 1
                   /\ pfPc' = "entries"
                   /\ UNCHANGED << pfVideos, pfFinished >>
              ELSE IF entry_raises(entry)
              THEN /\ PfEmit(FALSE, "Error", << >>)
                   /\ pfPc' = "done"
                   /\ UNCHANGED << pfVideos, pfProgress, pfCount >>
              ELSE /\ pfVideos' = Append(pfVideos,
                                         entry_video_info(entry, pfCount, pfPlatform))
                   /\ pfProgress' = Append(pfProgress, Scaled(60, pfCount, pfEntries, 30))
                   /\ pfCount' = pfCount + 1
                   /\ pfPc' = "entries"
                   /\ pfFinished' = pfFinished
       \/ /\ pfCount = pfEntries \/ ~pfRunning
          /\ pfPc' = "listed"
          /\ UNCHANGED << pfVideos, pfProgress, pfCount, pfFinished >>
    /\ UNCHANGED << pfUrl, pfMax, pfEnv, pfError, pfRunning, pfPlatform, pfEntries, pfStatus >>
    /\ UNCHANGED << sanVars, dlVars, dkVars, urlVars, viVars, uiVars >>

\* lines 522-527
PfListed ==
    /\ pfPc = "listed"
    /\ pfProgress' = Append(pfProgress, 100)
    /\ IF pfVideos # << >> /\ pfRunning
       THEN PfEmit(TRUE, "Found videos", pfVideos)
       ELSE PfEmit(FALSE, "No videos found in profile", << >>)
    /\ pfPc' = "done"
    /\ UNCHANGED << pfUrl, pfMax, pfEnv, pfError, pfRunning, pfPlatform, pfCount, pfEntries,
                    pfVideos, pfStatus >>
    /\ UNCHANGED << sanVars, dlVars, dkVars, urlVars, viVars, uiVars >>

\* InstagramScraperThread.run, lines 739-759: up to the loop; the import or the
\* lookup of the profile may raise, which the handler at 781 reports
ScStart ==
    /\ pfPc = "idle"
    /\ pfEnv.thread = "InstagramScraperThread"
    /\ \/ /\ ~pfEnv.instaloader
          /\ PfEmit(FALSE, "No module named 'instaloader'", << >>)
          /\ pfProgress' = pfProgress
          /\ pfPc' = "done"
       \/ /\ pfEnv.instaloader
          /\ PfEmit(FALSE, "error", << >>)
          /\ pfProgress' = pfProgress \o << 10, 30 >>
          /\ pfPc' = "done"
       \/ /\ pfEnv.instaloader
          /\ pfFinished' = pfFinished
          /\ pfProgress' = pfProgress \o << 10, 30, 50 >>
          /\ pfPc' = "sc_posts"
    /\ pfVideos' = << >>
    /\ pfCount' = 0
    /\ UNCHANGED << pfUrl, pfMax, pfEnv, pfError, pfRunning, pfPlatform, pfEntries, pfStatus >>
    /\ UNCHANGED << sanVars, dlVars, dkVars, urlVars, viVars, uiVars >>

\* lines 761-772: one turn of the loop of InstagramScraperThread.run
ScPost ==
    /\ pfPc = "sc_posts"
    /\ \/ /\ pfCount < pfEnv.size
          /\ pfRunning /\ ~ReachedLimit(pfCount, pfMax)
          /\ \E post \in PostChoices :
              /\ pfCount' = pfCount + 1
              /\ IF post.is_video /\ pfMax = 0
                 THEN \* count / self.max_posts raises ZeroDivisionError
                      /\ pfVideos' = Append(pfVideos,
                                            Text.instagram_p \o post.shortcode \o << "/" >>)
                      /\ pfProgress' = pfProgress
                      /\ PfEmit(FALSE, "division by zero", << >>)
                      /\ pfPc' = "done"
                 ELSE /\ IF post.is_video
                         THEN /\ pfVideos' = Append(pfVideos,
                                        Text.instagram_p \o post.shortcode \o << "/" >>)
                              /\ pfProgress' = Append(pfProgress,
                                        Scaled(50, pfCount + 1, pfMax, 40))
                         ELSE UNCHANGED << pfVideos, pfProgress >>
                      /\ pfPc' = "sc_posts"
                      /\ pfFinished' = pfFinished
       \/ /\ pfCount < pfEnv.size
          /\ PfEmit(FALSE, "error", << >>)
          /\ pfPc' = "done"
          /\ UNCHANGED << pfCount, pfVideos, pfProgress >>
       \/ /\ pfCount = pfEnv.size \/ ~pfRunning \/ ReachedLimit(pfCount, pfMax)
          /\ pfPc' = "sc_end"
          /\ UNCHANGED << pfCount, pfVideos, pfProgress, pfFinished >>
    /\ UNCHANGED << pfUrl, pfMax, pfEnv, pfError, pfRunning, pfPlatform, pfEntries, pfStatus >>
    /\ UNCHANGED << sanVars, dlVars, dkVars, urlVars, viVars, uiVars >>

\* lines 774-779
ScEnd ==
    /\ pfPc = "sc_end"
    /\ pfProgress' = Append(pfProgress, 100)
    /\ IF pfVideos # << >> /\ pfRunning
       THEN PfEmit(TRUE, "Found videos!", pfVideos)
       ELSE PfEmit(FALSE, "No videos found", << >>)
    /\ pfPc' = "done"
    /\ UNCHANGED << pfUrl, pfMax, pfEnv, pfError, pfRunning, pfPlatform, pfCount, pfEntries,
                    pfVideos, pfStatus >>
    /\ UNCHANGED << sanVars, dlVars, dkVars, urlVars, viVars, uiVars >>

PfNext ==
    \/ PfStop \/ PfStart \/ PfScrape \/ PfPost \/ PfScraped \/ PfFetch \/ PfEntry
    \/ PfListed \/ ScStart \/ ScPost \/ ScEnd

SpecProfile == PfInit /\ [][PfNext]_vars

\* a run of either collector
SpecCollectors == (ViInit \/ PfInit) /\ [][ViNext \/ PfNext]_vars

\* a run of either collector or of the download worker
SpecEngine == (ViInit \/ PfInit \/ DlInit) /\ [][ViNext \/ PfNext \/ Next]_vars

-----------------------------------------------------------------------------
(* InstagramBatchDownloader: starting and ending the workers (SpecUi)        *)

\* info_thread, profile_thread, download_thread, version_check_thread
Kinds == { "info", "profile", "download", "version" }

\* the most workers created in a run of the program
MaxWorkers == 4

\* the most video widgets displayed
MaxWidgets == 2

\* lines 926-935: no worker, except the version check that the constructor
\* starts when the last one is a day old; Download Selected starts disabled (1200)
UiInit ==
    /\ \E started \in BOOLEAN :
        /\ uiNext = IF started THEN 1 ELSE 0
        /\ uiSlot = [ k \in Kinds |-> IF started /\ k = "version" THEN 1 ELSE 0 ]
        /\ uiRunning = [ k \in Kinds |-> IF started /\ k = "version" THEN { 1 } ELSE {} ]
    /\ uiStopSent = {}
    /\ uiBtn = [ load |-> TRUE, fetch |-> TRUE, download |-> FALSE ]
    /\ uiWidgets = 0
    /\ uiSelected = 0
    /\ uiLeft = [ w \in 1 .. MaxWorkers |-> 0 ]
    /\ SanIdle /\ DlIdle /\ OthersIdle("window")

\* thread.isRunning() for the worker an attribute refers to
IsRunning(kind) == uiSlot[kind] # 0 /\ uiSlot[kind] \in uiRunning[kind]

\* a worker of the kind is created, stored in the attribute and started
StartWorker(kind, running) ==
    /\ uiNext < MaxWorkers
    /\ uiNext' = uiNext + 1
    /\ uiSlot' = [ uiSlot EXCEPT ![kind] = uiNext + 1 ]
    /\ uiRunning' = [ running EXCEPT ![kind] = @ \cup { uiNext + 1 } ]

\* a checkbox is checked or unchecked: stateChanged calls update_selection_count,
\* which enables Download Selected iff a widget is checked (1488)
UiToggle ==
    /\ \E selected \in 0 .. uiWidgets :
        /\ selected \in { uiSelected - 1, uiSelected + 1 }
        /\ uiSelected' = selected
        /\ uiBtn' = [ uiBtn EXCEPT !.download = (selected > 0) ]
    /\ UNCHANGED << uiSlot, uiRunning, uiStopSent, uiWidgets, uiLeft, uiNext >>
    /\ UNCHANGED << sanVars, dlVars, dkVars, urlVars, viVars, pfVars >>

\* load_videos with at least one valid URL, from a click on the enabled Load
\* Videos button: lines 1425-1434
UiLoadVideos ==
    /\ uiBtn.load
    /\ uiWidgets' = 0
    /\ uiSelected' = 0
    /\ uiBtn' = [ uiBtn EXCEPT !.load = FALSE, !.download = FALSE ]
    /\ StartWorker("info", uiRunning)
    /\ UNCHANGED << uiStopSent, uiLeft >>
    /\ UNCHANGED << sanVars, dlVars, dkVars, urlVars, viVars, pfVars >>

\* fetch_profile with a valid URL and enough disk space, from a click on the
\* enabled Fetch button: lines 1374-1383
UiFetchProfile ==
    /\ uiBtn.fetch
    /\ uiWidgets' = 0
    /\ uiSelected' = 0
    /\ uiBtn' = [ uiBtn EXCEPT !.fetch = FALSE, !.download = FALSE ]
    /\ StartWorker("profile", uiRunning)
    /\ UNCHANGED << uiStopSent, uiLeft >>
    /\ UNCHANGED << sanVars, dlVars, dkVars, urlVars, viVars, pfVars >>

\* the worker emits finished and its run returns; the handler (videos_loaded,
\* profile_fetched) enables the button again, cleans the attribute up and, on
\* success, displays the videos, all of them checked (843)
Collected(kind, button) ==
    /\ IsRunning(kind)
    /\ uiRunning' = [ uiRunning EXCEPT ![kind] = @ \ { uiSlot[kind] } ]
    /\ uiSlot' = [ uiSlot EXCEPT ![kind] = 0 ]
    /\ \/ /\ \E n \in 1 .. MaxWidgets :
              /\ uiWidgets' = n
              /\ uiSelected' = n
          /\ uiBtn' = [ uiBtn EXCEPT ![button] = TRUE, !.download = TRUE ]
       \/ /\ UNCHANGED << uiWidgets, uiSelected >>
          /\ uiBtn' = [ uiBtn EXCEPT ![button] = TRUE ]
    /\ UNCHANGED << uiStopSent, uiLeft, uiNext >>

\* lines 1436-1449
UiVideosLoaded == Collected("info", "load") /\ UNCHANGED << sanVars, dlVars, dkVars, urlVars, viVars, pfVars >>

\* lines 1385-1399
UiProfileFetched == Collected("profile", "fetch") /\ UNCHANGED << sanVars, dlVars, dkVars, urlVars, viVars, pfVars >>

\* start_download from a click on the enabled Download Selected button, with a
\* selection and the disk space accepted: lines 1530-1539. cleanup_thread (1340)
\* stops a running worker and waits up to 5 seconds for it: the worker has
\* returned by then, or it has not.
UiStartDownload ==
    /\ uiBtn.download
    /\ uiSelected > 0
    /\ \E in_time \in BOOLEAN :
        LET old       == uiSlot["download"]
            remaining == IF IsRunning("download") /\ in_time
                         THEN [ uiRunning EXCEPT !["download"] = @ \ { old } ]
                         ELSE uiRunning
        IN  /\ uiStopSent' = IF IsRunning("download") THEN uiStopSent \cup { old }
                             ELSE uiStopSent
            /\ StartWorker("download", remaining)
    /\ uiLeft' = [ uiLeft EXCEPT ![uiNext + 1] = uiSelected ]
    /\ uiBtn' = [ uiBtn EXCEPT !.download = FALSE ]
    /\ UNCHANGED << uiWidgets, uiSelected >>
    /\ UNCHANGED << sanVars, dlVars, dkVars, urlVars, viVars, pfVars >>

\* a download worker reports an item (finished, handled by video_downloaded,
\* 1541-1564): a success unchecks the item's widget if it is still displayed and
\* checked (mark_downloaded, 905), which calls update_selection_count. The
\* message is the mark, 'Downloaded: ' or 'Failed: ' and title[:50], so it
\* holds 'Complete!' (1552) only when the title does: the handler then cleans
\* up the worker download_thread refers to (1340: stop, wait up to 5 seconds),
\* enables Download Selected, calls update_selection_count and shows the dialog
UiVideoDownloaded ==
    /\ \E w \in uiRunning["download"], complete \in BOOLEAN, in_time \in BOOLEAN :
        LET old       == uiSlot["download"]
            cleaned   == complete /\ IsRunning("download")
            remaining == IF cleaned /\ in_time
                         THEN [ uiRunning EXCEPT !["download"] = @ \ { old } ]
                         ELSE uiRunning
        IN  /\ uiLeft[w] > 0
            /\ uiLeft' = [ uiLeft EXCEPT ![w] = @ - 1 ]
            /\ uiStopSent' = IF cleaned THEN uiStopSent \cup { old } ELSE uiStopSent
            /\ uiRunning' = remaining
            /\ uiSlot' = IF complete THEN [ uiSlot EXCEPT !["download"] = 0 ] ELSE uiSlot
            /\ \/ /\ uiSelected > 0
                  /\ uiSelected' = uiSelected - 1
                  /\ uiBtn' = [ uiBtn EXCEPT !.download = (uiSelected - 1 > 0) ]
               \/ /\ UNCHANGED uiSelected
                  /\ uiBtn' = IF complete THEN [ uiBtn EXCEPT !.download = (uiSelected > 0) ]
                              ELSE uiBtn
    /\ UNCHANGED << uiWidgets, uiNext >>
    /\ UNCHANGED << sanVars, dlVars, dkVars, urlVars, viVars, pfVars >>

\* the run of a download worker returns, after its last item or after stop()
UiDownloadEnds ==
    /\ \E w \in uiRunning["download"] :
        /\ uiLeft[w] = 0 \/ w \in uiStopSent
        /\ uiRunning' = [ uiRunning EXCEPT !["download"] = @ \ { w } ]
    /\ UNCHANGED << uiSlot, uiStopSent, uiBtn, uiWidgets, uiSelected, uiLeft, uiNext >>
    /\ UNCHANGED << sanVars, dlVars, dkVars, urlVars, viVars, pfVars >>

\* check_for_updates, lines 1258-1271: nothing is done while a check is running
UiCheckForUpdates ==
    /\ ~IsRunning("version")
    /\ StartWorker("version", uiRunning)
    /\ UNCHANGED << uiStopSent, uiBtn, uiWidgets, uiSelected, uiLeft >>
    /\ UNCHANGED << sanVars, dlVars, dkVars, urlVars, viVars, pfVars >>

\* VersionCheckThread.run returns (167-198)
UiVersionEnds ==
    /\ IsRunning("version")
    /\ uiRunning' = [ uiRunning EXCEPT !["version"] = {} ]
    /\ UNCHANGED << uiSlot, uiStopSent, uiBtn, uiWidgets, uiSelected, uiLeft, uiNext >>
    /\ UNCHANGED << sanVars, dlVars, dkVars, urlVars, viVars, pfVars >>

UiNext ==
    \/ UiToggle \/ UiLoadVideos \/ UiFetchProfile \/ UiVideosLoaded \/ UiProfileFetched
    \/ UiStartDownload \/ UiVideoDownloaded \/ UiDownloadEnds \/ UiCheckForUpdates
    \/ UiVersionEnds

SpecUi == UiInit /\ [][UiNext]_vars

-----------------------------------------------------------------------------
(* Properties of sanitize_filename                                           *)

DotDot == << ".", "." >>

SanCalled == sanPc \in { "once", "twice" }

\* characters of which nothing is left: '..', '/', '\' are removed, '.' and ' ' stripped
Vanishing == { ".", "/", "\\", " " }

\* C8: sanitize_filename is idempotent: applied to its own output it returns
\* that output unchanged.
C8_Idempotent == sanPc = "twice" => sanOut2 = sanOut

\* C9: the output of sanitize_filename never contains the sequence '..'.
C9_NoDotDot == SanCalled => ~Contains(sanOut, DotDot)

-----------------------------------------------------------------------------
(* Properties of a download batch                                            *)

NeverStopped == stopAt = NotStopped

AggregateLines == { k \in 1 .. Len(status_update) : status_update[k].what = "complete" }

DownloadCallsFor(i) == { k \in 1 .. Len(downloads) : downloads[k].idx = i }

\* C1: failure isolation. In a batch run without cancellation every item gets
\* exactly one outcome, success=false exactly for the items whose transfer
\* raised, and the aggregate line reports failed = the number of items whose
\* transfer raised and success = all the others.
C1_FailureIsolation ==
    (pc = "done" /\ NeverStopped) =>
        /\ Len(finished) = total
        /\ \A i \in 1 .. total :
              /\ finished[i].video_id = videos[i].id
              /\ finished[i].ok <=> i \notin raised
        /\ Cardinality(AggregateLines) = 1
        /\ status_update[Len(status_update)] =
              [ what |-> "complete", a |-> total - Cardinality(raised),
                b |-> Cardinality(raised) ]

\* C1 witness: the first item's transfer raised and the second item still got
\* its success outcome.
C1_Witness ==
    /\ pc = "done" /\ NeverStopped
    /\ total >= 2
    /\ raised = { 1 }
    /\ ~finished[1].ok /\ finished[2].ok
    /\ status_update[Len(status_update)].b = 1

\* C2: sequential ordering. While the run is not cancelled the outcomes emitted
\* so far are those of the first records, in input order, one each; at the end
\* there is one per record; and never are two items in their transfer at once.
C2_SequentialOrder ==
    /\ Cardinality(inflight) <= 1
    /\ NeverStopped =>
          /\ Len(finished) <= total
          /\ \A k \in 1 .. Len(finished) : finished[k].video_id = videos[k].id
          /\ pc = "done" => Len(finished) = total
          /\ pc = "transfer" => (inflight = { idx } /\ Len(finished) = idx - 1)

\* C2 witness: a finished batch of two different records, one outcome each.
C2_Witness ==
    /\ pc = "done" /\ NeverStopped
    /\ total = 2
    /\ videos[1].id # videos[2].id
    /\ Len(finished) = 2
    /\ finished[1].video_id = videos[1].id /\ finished[2].video_id = videos[2].id

\* C3: cancellation at an item boundary. If stop() was called after the outcome
\* of item k of n (1 <= k < n) and before item k+1 began, the run emits exactly
\* k outcomes and never the aggregate line.
StoppedAtBoundary ==
    /\ stopAt.pc \in { "loop", "sleep" }
    /\ stopAt.nout >= 1
    /\ stopAt.nout < total

C3_CancelAtBoundary ==
    StoppedAtBoundary =>
        /\ Len(finished) = stopAt.nout
        /\ AggregateLines = {}
        /\ pc \in { "loop", "sleep", "final", "done" }

\* C3 witness: stopped during the pause after item 1 of 2, the run is over with
\* one outcome.
C3_Witness ==
    /\ StoppedAtBoundary
    /\ stopAt.pc = "sleep"
    /\ pc = "done"
    /\ total = 2
    /\ Len(finished) = 1

\* C4: cancellation mid-transfer. Every callback made with the flag down
\* raises and reports no progress; and once a callback has raised for item k,
\* the transfer is over, control is back in the loop of run, item k was handed
\* to the extractor once, no later item is, and no aggregate line is emitted.
C4_AfterCancel ==
    cancelledIdx # 0 =>
        /\ pc \in { "loop", "final", "done" }
        /\ idx = cancelledIdx + 1
        /\ inflight = {}
        /\ Cardinality(DownloadCallsFor(cancelledIdx)) = 1
        /\ \A k \in 1 .. Len(downloads) : downloads[k].idx <= cancelledIdx
        /\ AggregateLines = {}

C4_CancelMidTransfer ==
    /\ []C4_AfterCancel
    /\ [][(ProgressHook /\ ~is_running) => (cancelledIdx' = idx /\ progress' = progress)]_vars

\* C4 witness: the transfer of item 1 of 2 was cancelled and the run is over.
C4_Witness ==
    /\ cancelledIdx = 1
    /\ total = 2
    /\ pc = "done"
    /\ Len(downloads) = 1

\* C5: a cancellation is not reported as a failure: the item whose transfer
\* stop() interrupted gets no success=false outcome and is not counted as failed.
C5_CancelNotFailure ==
    cancelledIdx # 0 =>
        /\ failed_count = Cardinality(raised)
        /\ ~(Len(finished) >= cancelledIdx /\ ~finished[cancelledIdx].ok)

SkippedAsDuplicate(k) ==
    /\ Len(finished) >= k
    /\ finished[k] = Outcome(TRUE, "exists", videos[k])
    /\ DownloadCallsFor(k) = {}

C7_PathConfined ==
    \A k \in 1 .. Len(downloads) : downloads[k].parent = "save_path"

-----------------------------------------------------------------------------
(* Properties of check_disk_space                                            *)

\* C20: check_disk_space fails open: when the query of the filesystem fails it
\* returns (True, 0).
C20_FailsOpen ==
    (dkPc = "done" /\ ~dkUsage.ok) =>
        /\ dkResult.has_space = TRUE
        /\ dkResult.free_mb = [ whole |-> 0, bytes |-> 0 ]

\* C20 witness: a call whose query failed has returned.
C20_Witness ==
    /\ dkPc = "done"
    /\ ~dkUsage.ok
    /\ dkResult.has_space

-----------------------------------------------------------------------------
(* Properties of is_valid_url                                                *)

\* C11: is_valid_url returns true if and only if the parsed URL has scheme http
\* or https, has a non-empty host, the string holds no '..' and holds at most 10
\* '/'; it returns false, and never raises, for every other input.
C11_ValidIff ==
    LET parsed == urlparse(urlIn)
    IN  urlPc = "done" =>
            ( urlResult <=>
                /\ ~parsed.raises
                /\ parsed.scheme \in { Text.http, Text.https }
                /\ hostname(parsed.netloc) # << >>
                /\ ~Contains(urlIn, << ".", "." >>)
                /\ Count(urlIn, "/") <= SlashLimit )

-----------------------------------------------------------------------------
(* Properties of VideoInfoThread                                             *)

\* the URLs whose extraction returned a dict, among those dealt with so far
RecordPositions == { k \in 1 .. Len(viLog) : viLog[k] = "record" }

NthRecordPosition(i) ==
    CHOOSE k \in RecordPositions : Cardinality({ j \in RecordPositions : j <= k }) = i

ViStatusHas(kind, k) ==
    \E i \in 1 .. Len(viStatus) : viStatus[i] = [ kind |-> kind, idx |-> k ]

\* C13: the URLs are processed in order; an invalid URL is skipped with a warning
\* status and a raising extraction gives a failure status, and neither ends the
\* loop: a run that was not stopped deals with every URL; the records are those
\* of the valid URLs whose extraction gave a result, in input order.
C13_Isolation ==
    /\ Len(viLog) <= Len(viUrls)
    /\ \A k \in 1 .. Len(viLog) :
        /\ viLog[k] = "invalid" <=> ~is_valid_url(viUrls[k])
        /\ viLog[k] = "invalid" => ViStatusHas("Invalid URL", k)
        /\ viLog[k] = "raised" => ViStatusHas("Failed", k)
    /\ Len(viVideos) = Cardinality(RecordPositions)
    /\ \A i \in 1 .. Len(viVideos) : viVideos[i].url = viUrls[NthRecordPosition(i)]
    /\ (viPc \in { "final", "done" } /\ viRunning) => Len(viLog) = Len(viUrls)

\* C13 witness: a finished run in which a record follows an invalid URL or a
\* failed extraction.
C13_Witness ==
    /\ viPc = "done"
    /\ viRunning
    /\ \E k \in 1 .. Len(viLog) :
        /\ viLog[k] \in { "invalid", "raised" }
        /\ \E j \in (k + 1) .. Len(viLog) : viLog[j] = "record"

\* C14: the finished event reports success if and only if at least one record
\* was produced during the run, whenever stop() was called.
C14_SuccessIffRecord ==
    \A i \in 1 .. Len(viFinished) : viFinished[i].ok <=> viVideos # << >>

-----------------------------------------------------------------------------
(* Properties of the profile collectors                                      *)

-----------------------------------------------------------------------------
(* Properties of the records of both collectors                              *)

\* the records ProfileFetchThread has made (InstagramScraperThread makes URLs)
PfRecords ==
    IF pfPc = "off" THEN << >>
    ELSE IF pfEnv.thread = "ProfileFetchThread" THEN pfVideos ELSE << >>

\* the records either collector has made
Records ==
    { viVideos[i] : i \in 1 .. Len(viVideos) }
        \cup { PfRecords[i] : i \in 1 .. Len(PfRecords) }

\* C15: every record has a non-empty id.
C15_IdNonEmpty == \A v \in Records : ~Falsy(v.id)

\* C16: every record has a non-empty title.
C16_TitleNonEmpty == \A v \in Records : ~Falsy(v.title)

\* C17: every record has a title of at most 100 characters.
C17_TitleLength == \A v \in Records : Len(v.title) <= TitleLimit

\* C18: every record has a url that is_valid_url accepts.
C18_UrlValid == \A v \in Records : is_valid_url(v.url)

-----------------------------------------------------------------------------
(* Properties of the window's workers                                        *)

\* a request to start a worker of the kind arrives while one is active
StartWhileActive ==
    \/ UiStartDownload /\ uiRunning["download"] # {}
    \/ UiLoadVideos /\ uiRunning["info"] # {}
    \/ UiFetchProfile /\ uiRunning["profile"] # {}

\* C19: at any time at most one worker of each kind is running, and a request
\* to start one while a worker of that kind is active does nothing: the active
\* worker is neither stopped nor replaced and no second worker is started.
C19_SingleFlight ==
    /\ [](\A k \in Kinds : Cardinality(uiRunning[k]) <= 1)
    /\ [][StartWhileActive => UNCHANGED << uiSlot, uiRunning, uiStopSent >>]_vars

-----------------------------------------------------------------------------
(* Properties of check_disk_space: the threshold                             *)

\* C21: when the query of the filesystem succeeds, the first component returned
\* by check_disk_space is true if and only if the free space is at least
\* required_mb megabytes, equality included.
C21_AtLeast ==
    (dkPc = "done" /\ dkUsage.ok) =>
        (dkResult.has_space <=> dkUsage.free >= dkRequired * MiB)

-----------------------------------------------------------------------------
(* Properties of detect_platform                                             *)

\* the platforms in the order of precedence, each with the domains that name it
PlatformOrder ==
    << [ name |-> "TikTok",    domains |-> { Text.tiktok } ],
       [ name |-> "YouTube",   domains |-> { Text.youtube, Text.youtu_be } ],
       [ name |-> "Instagram", domains |-> { Text.instagram } ],
       [ name |-> "Facebook",  domains |-> { Text.facebook, Text.fb } ] >>

\* the places in PlatformOrder one of whose domains the URL holds, letter case aside
PlatformHits(url) ==
    { k \in 1 .. Len(PlatformOrder) :
        \E d \in PlatformOrder[k].domains : Contains(Lower(url), d) }

\* a run of ProfileFetchThread that has classified its URL
PfClassified == pfEnv.thread = "ProfileFetchThread" /\ pfPlatform # ""

\* C22: detect_platform classifies a URL by case-insensitive substring match, the
\* first match winning in the order TikTok, YouTube, Instagram, Facebook, and
\* gives Unknown when no domain matches; a URL that holds the domains of two
\* platforms is classified as the earlier one.
C22_FirstMatchWins ==
    PfClassified =>
        LET hits == PlatformHits(pfUrl)
        IN  pfPlatform = IF hits = {} THEN "Unknown"
                         ELSE PlatformOrder[CHOOSE k \in hits : \A j \in hits : k <= j].name

\* C22 witness: a URL that holds the domains of two platforms, the later one
\* first in the text and in capitals, has been classified as the earlier one.
C22_Witness ==
    /\ PfClassified
    /\ PlatformHits(pfUrl) = { 2, 4 }
    /\ ~Contains(pfUrl, Text.youtu_be)
    /\ pfPlatform = "YouTube"

-----------------------------------------------------------------------------
(* Properties of DownloadThread: the filename                                *)

\* the name composed from the position, the sanitized title and the sanitized id
Composed(format, i, T, D) ==
    CASE format = 0 -> Fmt02(i) \o << "_" >> \o T
      [] format = 1 -> Prefix(D, 30)
      [] format = 2 -> Fmt02(i) \o << "_" >> \o T \o << "_" >> \o Prefix(D, 10)
      [] format = 3 -> T

\* '03_Hello World'
Name_03_Hello == << "0", "3", "_", "H", "e", "l", "l", "o", " ", "W", "o", "r", "l", "d" >>

\* C23: the filename handed to the transfer of the item at position i, of
\* sanitized title T and sanitized id D, is sanitize_filename of: format 0, the
\* two-digit i, '_' and T; format 1, D cut to 30 characters; format 2, the
\* two-digit i, '_', T, '_' and the first 10 characters of D; format 3, T alone.
\* Format 0 at position 3 with the title 'Hello World!!' gives a name that
\* begins '03_Hello World'.
C23_FilenameDerivation ==
    \A k \in 1 .. Len(downloads) :
        LET call  == downloads[k]
            video == videos[call.idx]
            T     == sanitize_filename(video.title)
            D     == sanitize_filename(video.id)
        IN  /\ call.name = sanitize_filename(Composed(filename_format, call.idx, T, D))
                              \o ExtPlaceholder
            /\ (filename_format = 0 /\ call.idx = 3 /\ video.title = Title_Hello)
                  => StartsWith(call.name, Name_03_Hello)

\* C23 witness: the third item, titled 'Hello World!!', was handed to the transfer
\* under format 0 with a name that begins '03_Hello World'.
C23_Witness ==
    \E k \in 1 .. Len(downloads) :
        /\ filename_format = 0
        /\ downloads[k].idx = 3
        /\ videos[3].title = Title_Hello
        /\ StartsWith(downloads[k].name, Name_03_Hello)

-----------------------------------------------------------------------------
(* Properties of DownloadThread: pacing                                      *)

\* the positions whose transfer was started
Transferred == { downloads[k].idx : k \in 1 .. Len(downloads) }

\* C24: in a run with rate_limit_delay > 0 the worker sleeps after the outcome of
\* every item but the last, whether its transfer succeeded or raised, before the
\* transfer of the next item is started; no sleep follows the last item.
C24_Pacing ==
    rate_limit_delay > 0 =>
        /\ \A i \in Transferred :
              (i + 1 \in Transferred /\ i \notin inflight) => i \in sleeps
        /\ total \notin sleeps

-----------------------------------------------------------------------------
(* Properties of DownloadThread: the states of a batch                       *)

\* the state of the batch: Idle before run, Running inside it, and once run has
\* returned Cancelled when stop() was called during it, Completed otherwise
BatchState ==
    IF pc = "idle" THEN "Idle"
    ELSE IF pc = "done" THEN (IF NeverStopped THEN "Completed" ELSE "Cancelled")
    ELSE "Running"

BatchStep ==
    \/ BatchState' = BatchState
    \/ BatchState = "Idle" /\ BatchState' = "Running"
    \/ BatchState = "Running" /\ BatchState' \in { "Completed", "Cancelled" }

\* C25: a batch goes Idle -> Running -> Completed or Cancelled and stays there;
\* the aggregate line is emitted at most once, after the last outcome, and only
\* when the run was not cancelled, in which case it ends the run; a Cancelled
\* run has no aggregate line, and no run emits anything after it has ended.
C25_BatchStates ==
    /\ [][BatchStep]_vars
    /\ [](Cardinality(AggregateLines) <= 1)
    /\ [](AggregateLines # {} => BatchState = "Completed")
    /\ [](BatchState = "Completed" =>
            /\ Cardinality(AggregateLines) = 1
            /\ status_update[Len(status_update)].what = "complete"
            /\ Len(finished) = total)
    /\ [](BatchState = "Cancelled" => AggregateLines = {})
    /\ [][pc = "done" => UNCHANGED << finished, status_update, progress >>]_vars

\* C25 witness: stop() came after the outcome of the last item and before the
\* test that guards the aggregate line; the run has ended Cancelled with every
\* outcome and without the line.
C25_Witness ==
    /\ BatchState = "Cancelled"
    /\ stopAt.pc = "final"
    /\ Len(finished) = total
    /\ AggregateLines = {}

-----------------------------------------------------------------------------
(* Properties of the collectors: progress                                    *)

\* every percentage of the sequence lies in 0..100 and none is below the one before
Rising(percents) ==
    /\ \A k \in 1 .. Len(percents) : percents[k] \in 0 .. 100
    /\ \A k \in 1 .. (Len(percents) - 1) : percents[k] <= percents[k + 1]

\* C26: within one run of a collector (VideoInfoThread, or ProfileFetchThread in
\* any platform branch, with any limit and any number of entries) every progress
\* percentage emitted lies in 0..100 and the percentages never decrease.
C26_ProgressRises ==
    /\ Rising(viProgress)
    /\ (pfPc # "off" /\ pfEnv.thread = "ProfileFetchThread") => Rising(pfProgress)

\* C26 witness: a profile run over a listing of two entries has ended with the
\* percentages 10, 30, 60, 60, 75, 100.
C26_Witness ==
    /\ pfPc = "done"
    /\ pfEnv.thread = "ProfileFetchThread"
    /\ pfProgress = << 10, 30, 60, 60, 75, 100 >>

\* the status lines that announce an extraction, one per valid URL reached
Extracting == SelectSeq(viStatus, LAMBDA line : line.kind = "Extracting info")

\* p is num/den rounded to a nearest integer (either one at a tie)
Rounded(p, num, den) == 2 * (num - p * den) <= den /\ 2 * (p * den - num) <= den

\* C27: while metadata is collected over total URLs, the progress emitted for
\* the valid URL at position index (from 1) is round(index/total * 90), and 100
\* is emitted when the run completes.
C27_ProgressRounded ==
    /\ \A j \in 1 .. Len(Extracting) :
          Rounded(viProgress[j], Extracting[j].idx * 90, Len(viUrls))
    /\ viPc = "done" =>
          /\ Len(viProgress) = Len(Extracting) + 1
          /\ viProgress[Len(viProgress)] = 100

-----------------------------------------------------------------------------
(* Properties of ProfileFetchThread: the terminal failures                   *)

\* the messages that report an empty profile (lines 446, 490, 527)
NoVideosMessages == { "No videos found in this Instagram profile",
                      "No videos found in this profile.",
                      "No videos found in profile" }

\* C28: a profile run ends in failure whenever no entry was found, and the causes
\* 'empty profile', 'extraction capability unavailable' and 'profile identifier
\* not resolved' have messages of their own, each emitted only when its cause
\* occurred: the 'no videos found' message only when no video was found.
C28_TerminalFailure ==
    (pfPc # "off" /\ pfEnv.thread = "ProfileFetchThread") =>
        \A k \in 1 .. Len(pfFinished) :
            LET event == pfFinished[k]
            IN  /\ event.ok => (event.videos # << >> /\ event.videos = pfVideos)
                /\ event.message \in NoVideosMessages => pfVideos = << >>
                /\ event.message = "Instagram scraping requires 'instaloader'"
                      => (pfPlatform = "Instagram" /\ ~pfEnv.instaloader)
                /\ event.message = "Could not extract Instagram username from URL"
                      => (pfPlatform = "Instagram" /\ pfEnv.instaloader
                          /\ Falsy(extract_instagram_username(pfUrl)))

-----------------------------------------------------------------------------
(* Properties of ProfileFetchThread: the errors of the Instagram branch      *)

\* C29: when the Instagram enumeration raises, the run ends with a single
\* failure event: the private-profile guidance for a private profile, the
\* rate-limit guidance for a rate limit, a generic Instagram error otherwise; an
\* error that is neither is never reported with either guidance.
C29_ErrorClasses ==
    (pfPc # "off" /\ pfError # NoError) =>
        /\ pfPc = "done"
        /\ Len(pfFinished) = 1
        /\ ~pfFinished[1].ok
        /\ pfFinished[1].message =
              CASE pfError.cause = "private" -> "This Instagram profile is private."
                [] pfError.cause = "rate limit" -> "Instagram rate limit reached."
                [] OTHER -> "Instagram error"

-----------------------------------------------------------------------------
(* Properties of the collectors and of DownloadThread: failures are seen     *)

\* C30: no failure is silent. Every failure in the collectors and in the
\* download worker (an invalid URL, an extractor that returns no metadata, an
\* extraction error, a failing scan of the directory for duplicates, a transfer
\* error) is followed by an observable event of its own: a status line about
\* the URL or item other than the announcement of the work on it, a failure
\* outcome, or a terminal finished event that reports failure.
C30_NoSilentFailure ==
    /\ viPc = "done" =>
          \A k \in 1 .. Len(viLog) :
              viLog[k] # "record" =>
                  \/ ViStatusHas("Invalid URL", k) \/ ViStatusHas("Failed", k)
                  \/ ~viFinished[1].ok
    /\ (pfPc # "off" /\ pfError # NoError) => (Len(pfFinished) = 1 /\ ~pfFinished[1].ok)
    /\ pc = "done" =>
          /\ \A i \in raised :
                \E k \in 1 .. Len(finished) : finished[k] = Outcome(FALSE, "failed", videos[i])
          /\ \A k \in 1 .. Len(scans) :
                ~scans[k].listed =>
                    \/ \E n \in 1 .. Len(finished) :
                          finished[n] = Outcome(FALSE, "failed", videos[scans[k].idx])
                    \/ \E n \in 1 .. Len(status_update) :
                          status_update[n].what \notin { "downloading", "complete" }

-----------------------------------------------------------------------------
(* Properties of DownloadThread: cancellation                                *)

\* the last position whose processing had begun when stop() was called: the
\* item in hand once the test of the flag at the head of the loop has let it in
LastBegun ==
    IF stopAt.pc \in { "item", "transfer", "sleep" } THEN stopAt.idx ELSE stopAt.idx - 1

\* C31: in every interleaving of stop() with run, once the flag is down no item
\* whose processing has not begun is started, so at most one outcome more, that
\* of the item in hand, is emitted after the flag went down.
C31_Responsive ==
    ~NeverStopped =>
        /\ \A k \in 1 .. Len(scans) : scans[k].idx <= LastBegun
        /\ \A k \in 1 .. Len(downloads) : downloads[k].idx <= LastBegun
        /\ Len(finished) <= stopAt.nout + 1
        /\ \A k \in (stopAt.nout + 1) .. Len(finished) :
              finished[k].video_id = videos[LastBegun].id

\* C31 witness: stop() came during the transfer of item 1 of a longer batch; the
\* run is over with the outcome of item 1 alone.
C31_Witness ==
    /\ stopAt.pc = "transfer"
    /\ stopAt.idx = 1
    /\ stopAt.nout = 0
    /\ total >= 2
    /\ pc = "done"
    /\ Len(finished) = 1

-----------------------------------------------------------------------------
(* Properties of DownloadThread: the counters                                *)

OutcomesWith(ok) == { k \in 1 .. Len(finished) : finished[k].ok = ok }

\* C32: throughout a run success_count + failed_count is the number of outcomes
\* emitted so far, success_count the number of success=true outcomes (the
\* duplicates skipped among them) and failed_count the number of success=false
\* outcomes; the aggregate line reports these counts and their sum is then the
\* number of input records.
C32_Counters ==
    pc # "off" =>
        /\ success_count = Cardinality(OutcomesWith(TRUE))
        /\ failed_count = Cardinality(OutcomesWith(FALSE))
        /\ success_count + failed_count = Len(finished)
        /\ \A k \in AggregateLines :
              /\ status_update[k].a = success_count
              /\ status_update[k].b = failed_count
              /\ status_update[k].a + status_update[k].b = total

\* C32 witness: a batch with a skipped duplicate and a failed transfer has ended
\* with its aggregate line.
C32_Witness ==
    /\ AggregateLines # {}
    /\ \E k \in 1 .. Len(finished) : finished[k].what = "exists"
    /\ \E k \in 1 .. Len(finished) : finished[k].what = "failed"

-----------------------------------------------------------------------------
(* Properties of the collectors: the terminal event                          *)

\* C33: every run of a collector (VideoInfoThread, ProfileFetchThread) that was
\* started emits exactly one terminal finished event, whenever stop() is called
\* and on every branch: never more than one, and one when run has returned.
C33_OneTerminalEvent ==
    /\ Len(viFinished) <= 1
    /\ viPc = "done" => Len(viFinished) = 1
    /\ (pfPc # "off" /\ pfEnv.thread = "ProfileFetchThread") =>
          /\ Len(pfFinished) <= 1
          /\ pfPc = "done" => Len(pfFinished) = 1

\* C34: in every terminal finished event of a collector (VideoInfoThread,
\* ProfileFetchThread, InstagramScraperThread) the success flag is true if and
\* only if the list delivered is non-empty: a failure carries no partial result
\* and a success no empty list.
C34_SuccessIffList ==
    /\ \A k \in 1 .. Len(viFinished) : viFinished[k].ok <=> viFinished[k].videos # << >>
    /\ \A k \in 1 .. Len(pfFinished) : pfFinished[k].ok <=> pfFinished[k].videos # << >>

\* C34 witness: a run of VideoInfoThread that had collected a record was stopped
\* and has ended with a failure event that carries an empty list.
C34_Witness ==
    /\ viPc = "done"
    /\ ~viRunning
    /\ viVideos # << >>
    /\ Len(viFinished) = 1
    /\ ~viFinished[1].ok
    /\ viFinished[1].videos = << >>

-----------------------------------------------------------------------------
(* Properties of DownloadThread: work done once                              *)

\* C35: for every filename_format in 0..3, once a transfer of a record has
\* completed and left its file, named by the derived filename, in save_dir, the
\* same record submitted again with the same save_dir is skipped as a duplicate
\* and not transferred a second time.
C35_NoSecondTransfer ==
    \A k \in 1 .. Len(scans) : scans[k].derived => SkippedAsDuplicate(k)

-----------------------------------------------------------------------------
(* Properties of DownloadThread: the destinations of a batch                 *)

\* C36: within one run, for every filename_format in 0..3, no two distinct
\* records that reach the transfer are given the same derived filename, so the
\* transfer of one item never aims at the destination of another.
C36_DistinctNames ==
    \A j, k \in 1 .. Len(downloads) :
        videos[downloads[j].idx] # videos[downloads[k].idx]
            => downloads[j].name # downloads[k].name

HoldsPercent(s) == \E i \in 1 .. Len(s) : s[i] = "%"

\* C37: for every record and every filename_format the derived filename holds
\* no '%', so the output template handed to the extractor holds exactly one
\* field, the extension placeholder at its end.
C37_OneTemplateField ==
    \A k \in 1 .. Len(downloads) :
        LET name == downloads[k].name
            stem == Len(name) - Len(ExtPlaceholder)
        IN  /\ stem >= 0
            /\ SubSeq(name, stem + 1, Len(name)) = ExtPlaceholder
            /\ ~ HoldsPercent(SubSeq(name, 1, stem))

C37_Witness ==
    \E k \in 1 .. Len(downloads) :
        /\ HoldsPercent(videos[downloads[k].idx].title)
        /\ HoldsPercent(videos[downloads[k].idx].id)
        /\ filename_format = 2

-----------------------------------------------------------------------------
(* Properties of sanitize_filename: the ends of the output                   *)

\* C38: for every input, of any length, the output of sanitize_filename
\* neither begins nor ends with '.' or a space.
C38_CleanEnds ==
    sanPc # "init" =>
        /\ Len(sanOut) >= 1
        /\ sanOut[1] \notin StripChars
        /\ sanOut[Len(sanOut)] \notin StripChars

-----------------------------------------------------------------------------
(* Properties of DownloadThread: the progress callback                       *)

\* C39: while cancellation has not been requested, progress_hook returns
\* without raising for every payload the extractor may supply (status
\* downloading or finished; byte counts present, absent, None or zero), so a
\* call of the callback with the flag up never adds a failed transfer.
C39_HookRaisesOnlyOnCancel ==
    [][ (ProgressHook /\ is_running) => raised' = raised ]_vars

-----------------------------------------------------------------------------
(* Properties of the main window: the end of a download batch                *)

\* the run of the worker download_thread refers to has returned after its last
\* outcome and nobody asked it to stop
BatchCompleted ==
    LET w == uiSlot["download"]
    IN  /\ w # 0
        /\ w \notin uiRunning["download"]
        /\ w \notin uiStopSent
        /\ uiLeft[w] = 0

\* the completion handling of video_downloaded ran: it alone sets
\* download_thread back to None
CompletionHandling == uiSlot["download"] # 0 /\ uiSlot'["download"] = 0

\* C40: when a download batch completes without cancellation, the completion
\* handling of the main window (cleanup of the download worker, Download
\* enabled again, completion dialog) runs once, after the last outcome of the
\* batch: it has run by the time the worker's run has returned, and it never
\* runs while the worker it cleans up has items pending.
C40_CompletionOnce ==
    /\ [] ~BatchCompleted
    /\ [][ CompletionHandling => uiLeft'[uiSlot["download"]] = 0 ]_vars

====
